---- MODULE Spec2Model ----
(***************************************************************************)
(* A model of the abstra_lua sandboxed Lua interpreter.                    *)
(*                                                                         *)
(* Spec         the evaluator's control machine: one session, the host     *)
(*              calling execute/eval, and the interpreter's Python call    *)
(*              stack (chunk, user function, loop, pcall and metamethod    *)
(*              frames) with the three budgets.  The script is the input:  *)
(*              each step picks the next thing the script makes the        *)
(*              evaluator do.                                              *)
(* SpecTable    one LuaTable under rawset, length and the conversion to a  *)
(*              host value.                                                *)
(* SpecBridge   the host bridge: a host value set and read back.           *)
(* SpecSession  the session's variables: the globals table as the          *)
(*              standard library leaves it, the session environment, and   *)
(*              set / get / assignment / read of a name.                   *)
(* SpecPcall    pcall around a call that returns or raises.                *)
(* SpecExplist  an expression list evaluated as call arguments, return     *)
(*              values, assignment values or table constructor fields.     *)
(* SpecNext     a walk over a table with next while the table is written.  *)
(* SpecIpairs   ipairs and the iterator it returns.                        *)
(* SpecMeta     setmetatable, getmetatable and pairs on one table.         *)
(* SpecPack     table.pack followed by table.unpack.                       *)
(* SpecLexer    the lexer inside a string literal, then the parser.        *)
(* SpecNewindex one assignment t[k] = v to a table with a metatable.       *)
(* SpecEquality == and ~= on two values.                                   *)
(* SpecBitwise  the bitwise operators on integers.                         *)
(* SpecScope    local declarations, blocks and a closure.                  *)
(* SpecHost     the control machine with xpcall and with the host calling  *)
(*              a script function.                                         *)
(* SpecSyntax   execute and eval of a source ending in a string literal.   *)
(***************************************************************************)
EXTENDS Integers, Sequences, FiniteSets, TLC

VARIABLES
    max_instructions,   \* Interpreter.max_instructions
    max_call_depth,     \* Interpreter.max_call_depth
    max_output_bytes,   \* Interpreter.max_output_bytes
    instructions,       \* Interpreter.instructions
    call_depth,         \* Interpreter.call_depth
    output,             \* Interpreter.output, each record kept as its length
    output_bytes,       \* Interpreter._output_bytes
    stack,              \* the evaluator's Python call stack, innermost last
    exc,                \* the exception propagating, "none" when there is none
    phase,              \* "idle" (host), "parsing", "running"
    call,               \* the session method in progress or last run
    outcome,            \* what the host received from the last call
    begun,              \* statements and loop iterations begun in this call
    tbl,                \* the LuaTable
    conv,               \* the last operation on the table and its result
    hv,                 \* SpecBridge: the host value given to set
    pv,                 \* SpecBridge: the host value get returned
    bpc,                \* SpecBridge: "idle", "start", "set", "got"
    globals,            \* SpecSession: Interpreter.globals
    senv,               \* SpecSession: LuaSession._env.vars
    got,                \* SpecSession: the value last read
    wrote,              \* SpecSession: the name and value last written
    lpc,                \* library call: where the calling script (or lexer) is
    largs,              \* library call: the arguments (or source text) given
    lcallee,            \* the function called back or returned: what it got
                        \* and did, its closure cell; the lexer's position
    lres                \* what the call returned or raised; a walk's record

ctl == <<max_instructions, max_call_depth, max_output_bytes, instructions,
         call_depth, output, output_bytes, stack, exc, phase, call, outcome,
         begun>>
tblVars == <<tbl, conv>>
brVars == <<hv, pv, bpc>>
sesVars == <<globals, senv, got, wrote>>
libVars == <<lpc, largs, lcallee, lres>>
aux == <<tblVars, brVars, sesVars, libVars>>
vars == <<ctl, tblVars, brVars, sesVars, libVars>>

(***************************************************************************)
(* Bounds of the model.                                                    *)
(***************************************************************************)
MaxInstructions == 3    \* largest instruction budget tried
MaxCallDepth == 2       \* largest call-depth budget tried
MaxOutputBytes == 2     \* largest output budget tried
MaxLine == 1            \* longest printed record
PyRecursionLimit == 3   \* frames the host (Python) stack holds
Overrun == 1            \* how far a counter is followed past its budget
MaxLen == 2             \* longest host list / dict at one level
MaxKey == 3             \* largest integer key written to the table
MaxVal == 2             \* largest integer bound to a name
MaxArgs == 2            \* most arguments passed on, most results returned
MaxSeen == 3            \* most keys one walk with next is followed for
MaxPack == 3            \* most arguments given to table.pack
MaxSrc == 4             \* longest string literal body given to the lexer
WordBits == 4           \* width of the integers here, standing for 64 bits
MaxEnvs == 2            \* most Environment objects one chunk creates

(***************************************************************************)
(* Values.  nil / None is one value, as in the code; a scalar is the same  *)
(* value on both sides of the bridge.                                      *)
(*   <<"nil">>  <<"bool", b>>  <<"int", n>>  <<"str", s>>                  *)
(*   <<"float", whole, tenths>>                  a float                   *)
(*   <<"builtin", name>>                         a BuiltinFunction         *)
(*   <<"lib", name>>                             a library table           *)
(*   <<"table", [data, hint, next_keys, metatable]>>   a LuaTable          *)
(*   <<"ref", "tbl">>                            the LuaTable in tbl       *)
(*   <<"fn", name>>                              a LuaFunction             *)
(*   <<"list", <<v, ...>>>>  <<"dict", <<<<k, v>>, ...>>>>   host values   *)
(***************************************************************************)
Nil == <<"nil">>
BoolV(b) == <<"bool", b>>
IntV(n) == <<"int", n>>
StrV(s) == <<"str", s>>

\* isinstance(v, int): Python's bool is a subclass of int
IsPyInt(v) == v[1] \in {"int", "bool"}

\* the number a Python int or bool stands for
IntOf(v) == IF v[1] = "bool" THEN (IF v[2] THEN 1 ELSE 0) ELSE v[2]

\* the key a Python dict files a value under: True is 1, False is 0
PyKey(k) == IF k[1] = "bool" THEN IntV(IntOf(k)) ELSE k

\* the key a value is, as the language tells keys apart: values of
\* different types are different keys, a float equal to an integer is that
\* integer
LuaKey(k) == IF k[1] = "float" /\ k[3] = 0 THEN IntV(k[2]) ELSE k

\* a call outcome: the values returned, or the exception raised
Returned(vals) == [kind |-> "return", class |-> "", msg |-> "", vals |-> vals]
Raised(class, msg) == [kind |-> "raise", class |-> class, msg |-> msg,
                       vals |-> <<>>]
NoOutcome == [kind |-> "none", class |-> "", msg |-> "", vals |-> <<>>]

(***************************************************************************)
(* lua_table.py: LuaTable.  _data is a Python dict: the entries in         *)
(* insertion order, the keys compared as Python compares them.             *)
(***************************************************************************)
\* _sequence_hint is a Python int: an integer, or the key True itself.
\* _next_keys is None or the list of keys cached by next.  _metatable is
\* None or a table.
NoKeys == <<"None">>
EmptyTable ==
    [data |-> <<>>, hint |-> IntV(0), next_keys |-> NoKeys, metatable |-> Nil]

\* the place of the entry filed under k, 0 when there is none
IndexOf(data, k) ==
    LET S == {i \in 1..Len(data) : PyKey(data[i][1]) = PyKey(k)} IN
    IF S = {} THEN 0 ELSE CHOOSE i \in S : TRUE

\* key in self._data
HasKey(data, k) == IndexOf(data, k) # 0

\* self._data.pop(key, None)
RemoveAt(data, i) ==
    IF i = 0 THEN data
    ELSE SubSeq(data, 1, i - 1) \o SubSeq(data, i + 1, Len(data))

\* self._data[key] = value: a key already there keeps its place and object
StoreAt(data, k, v) ==
    LET i == IndexOf(data, k) IN
    IF i = 0 THEN Append(data, <<k, v>>)
    ELSE [data EXCEPT ![i] = <<data[i][1], v>>]

\* LuaTable._normalize_key: a float <<"float", whole, tenths>> that equals
\* an integer becomes that integer
normalize_key(k) == IF k[1] = "float" /\ k[3] = 0 THEN IntV(k[2]) ELSE k

\* LuaTable.rawget
rawget(t, k) ==
    LET key == normalize_key(k) IN
    IF key = Nil THEN Nil
    ELSE LET i == IndexOf(t.data, key) IN
         IF i = 0 THEN Nil ELSE t.data[i][2]

\* the hint left where the write put it, the loop not run
ExtendHintNot(data, h) == h

\* while (self._sequence_hint + 1) in self._data: self._sequence_hint += 1
RECURSIVE ExtendHint(_, _)
ExtendHint(data, h) ==
    IF HasKey(data, IntV(h + 1)) THEN ExtendHint(data, h + 1) ELSE h

\* LuaTable.rawset, for a key that is not nil
rawset(t, k, v) ==
    LET key == normalize_key(k)
        d == IF v = Nil THEN RemoveAt(t.data, IndexOf(t.data, key))
             ELSE StoreAt(t.data, key, v)
        h == IF IsPyInt(key) /\ IntOf(key) >= 1
             THEN IF v # Nil /\ IntOf(key) = IntOf(t.hint) + 1
                  THEN LET n == ExtendHint(d, IntOf(key)) IN
                       IF n = IntOf(key) THEN key ELSE IntV(n)
                  ELSE IF v = Nil /\ IntOf(key) <= IntOf(t.hint)
                  THEN IntV(IntOf(key) - 1)
                  ELSE t.hint
             ELSE t.hint
    IN [t EXCEPT !.data = d, !.hint = h, !.next_keys = NoKeys]

\* j = 1; while j in self._data: j *= 2
RECURSIVE Doubled(_, _)
Doubled(data, j) ==
    IF HasKey(data, IntV(j)) THEN Doubled(data, 2 * j) ELSE j

\* while hi - lo > 1: mid = (lo + hi) // 2 ...
RECURSIVE Bisect(_, _, _)
Bisect(data, lo, hi) ==
    IF hi - lo > 1
    THEN LET mid == (lo + hi) \div 2 IN
         IF HasKey(data, IntV(mid)) THEN Bisect(data, mid, hi)
         ELSE Bisect(data, lo, mid)
    ELSE lo

\* LuaTable.length: the value returned
length(t) ==
    IF IntOf(t.hint) >= 0 /\ ~HasKey(t.data, IntV(IntOf(t.hint) + 1))
    THEN t.hint
    ELSE IF ~HasKey(t.data, IntV(1)) THEN IntV(0)
    ELSE LET j == Doubled(t.data, 1) IN IntV(Bisect(t.data, j \div 2, j))

\* LuaTable.length: the table it leaves
AfterLength(t) ==
    IF IntOf(t.hint) >= 0 /\ ~HasKey(t.data, IntV(IntOf(t.hint) + 1)) THEN t
    ELSE IF ~HasKey(t.data, IntV(1)) THEN t
    ELSE [t EXCEPT !.hint = length(t)]

Keys(t) == {t.data[i][1] : i \in 1..Len(t.data)}

\* list(self._data.keys())
KeyList(data) == [i \in 1..Len(data) |-> data[i][1]]

\* the list LuaTable.next walks: the cached one, or a fresh one
NextKeyList(t) ==
    IF t.next_keys[1] = "None" THEN KeyList(t.data) ELSE t.next_keys[2]

\* keys.index(key): Python equality, so True finds 1; 0 for ValueError
KeyIndex(keys, key) ==
    LET S == {i \in 1..Len(keys) : PyKey(keys[i]) = PyKey(key)} IN
    IF S = {} THEN 0 ELSE CHOOSE i \in S : \A j \in S : i <= j

\* LuaTable.next: the pair returned, or the exception raised
next(t, key) ==
    LET keys == NextKeyList(t) IN
    IF key = Nil
    THEN IF keys = <<>> THEN Returned(<<Nil, Nil>>)
         ELSE IF ~HasKey(t.data, keys[1]) THEN Raised("KeyError", "")
         ELSE Returned(<<keys[1], t.data[IndexOf(t.data, keys[1])][2]>>)
    ELSE LET idx == KeyIndex(keys, normalize_key(key)) IN
         IF idx = 0 THEN Raised("LuaRuntimeError", "invalid key to 'next'")
         ELSE IF idx + 1 > Len(keys) THEN Returned(<<Nil, Nil>>)
         ELSE Returned(<<keys[idx + 1], rawget(t, keys[idx + 1])>>)

\* LuaTable.next: the table it leaves, its key list cached
AfterNext(t) == [t EXCEPT !.next_keys = <<"list", NextKeyList(t)>>]

(***************************************************************************)
(* session.py: the bridge                                                  *)
(***************************************************************************)
RECURSIVE ToLua(_)
RECURSIVE ListToLua(_, _, _)
RECURSIVE ListToLuaFromZero(_, _, _)
RECURSIVE DictToLua(_, _, _)

\* for i, v in enumerate(value): t.rawset(i, self._to_lua(v))
ListToLuaFromZero(items, i, t) ==
    IF i > Len(items) THEN t
    ELSE ListToLuaFromZero(items, i + 1,
                           rawset(t, IntV(i - 1), ToLua(items[i])))

\* for i, v in enumerate(value, 1): t.rawset(i, self._to_lua(v))
ListToLua(items, i, t) ==
    IF i > Len(items) THEN t
    ELSE ListToLua(items, i + 1, rawset(t, IntV(i), ToLua(items[i])))

\* for k, v in value.items(): ... if lk is not None: t.rawset(lk, lv)
DictToLua(items, i, t) ==
    IF i > Len(items) THEN t
    ELSE LET lk == ToLua(items[i][1])
             lw == ToLua(items[i][2])
         IN DictToLua(items, i + 1,
                      IF lk # Nil THEN rawset(t, lk, lw) ELSE t)

\* LuaSession._to_lua
ToLua(v) ==
    CASE v[1] \in {"nil", "bool", "int", "str"} -> v
      [] v[1] = "dict" -> <<"table", DictToLua(v[2], 1, EmptyTable)>>
      [] v[1] = "list" -> <<"table", ListToLua(v[2], 1, EmptyTable)>>
      [] OTHER -> v

RECURSIVE ToPython(_)
RECURSIVE TableToPython(_)

\* for k in table._data: if not isinstance(k, int) or k < 1 or k > n
HasNonInt(t, n) ==
    \E i \in 1..Len(t.data) :
        LET k == t.data[i][1] IN
        ~IsPyInt(k) \/ IntOf(k) < 1 \/ IntOf(k) > n

\* the test that picks the list
PureSequence(t, n) == ~HasNonInt(t, n) /\ n > 0 /\ Len(t.data) = n

\* LuaSession._table_to_python
TableToPython(t) ==
    LET n == IntOf(length(t)) IN
    IF PureSequence(t, n)
    THEN <<"list", [i \in 1..n |-> ToPython(rawget(AfterLength(t), IntV(i)))]>>
    ELSE <<"dict", [i \in 1..Len(t.data) |->
                      <<t.data[i][1], ToPython(t.data[i][2])>>]>>

\* LuaSession._to_python
ToPython(v) ==
    CASE v[1] \in {"nil", "bool", "int", "str"} -> v
      [] v[1] = "table" -> TableToPython(v[2])
      [] OTHER -> v

\* Python's == on host values
RECURSIVE PyEq(_, _)
PyEq(a, b) ==
    CASE a[1] \in {"bool", "int"} /\ b[1] \in {"bool", "int"} ->
             IntOf(a) = IntOf(b)
      [] a[1] = "list" /\ b[1] = "list" ->
             /\ Len(a[2]) = Len(b[2])
             /\ \A i \in 1..Len(a[2]) : PyEq(a[2][i], b[2][i])
      [] a[1] = "dict" /\ b[1] = "dict" ->
             /\ Len(a[2]) = Len(b[2])
             /\ \A i \in 1..Len(a[2]) :
                  \E j \in 1..Len(b[2]) :
                     /\ PyKey(a[2][i][1]) = PyKey(b[2][j][1])
                     /\ PyEq(a[2][i][2], b[2][j][2])
      [] a[1] = b[1] /\ a[1] \in {"nil", "str", "builtin"} -> a = b
      [] OTHER -> FALSE

(***************************************************************************)
(* stdlib.py: install_stdlib.  What each builtin does is not part of the   *)
(* value: a BuiltinFunction is kept as its name.                           *)
(***************************************************************************)
Builtin(name) == <<"builtin", name>>

\* _bf(name, fn) for each name, in order: the names are distinct strings
\* not yet in the table, so each rawset adds an entry and leaves the hint
RegisterAll(t, prefix, names) ==
    [t EXCEPT !.data = t.data \o [i \in 1..Len(names) |->
                          <<StrV(names[i]), Builtin(prefix \o names[i])>>]]

BasicNames ==
    <<"print", "type", "tostring", "tonumber", "assert", "error", "pcall",
      "xpcall", "ipairs", "pairs", "next", "select", "rawget", "rawset",
      "rawlen", "rawequal", "setmetatable", "getmetatable", "unpack">>

TableNames ==
    <<"insert", "remove", "sort", "concat", "move", "unpack", "pack">>

StringNames ==
    <<"byte", "char", "len", "sub", "rep", "reverse", "upper", "lower",
      "find", "match", "gmatch", "gsub", "format">>

MathNames ==
    <<"abs", "ceil", "floor", "sqrt", "sin", "cos", "tan", "asin", "acos",
      "exp", "log", "atan", "random", "randomseed", "max", "min",
      "tointeger", "type">>

\* math.pi, math.huge, math.maxinteger, math.mininteger, kept by name
MathNumbers == <<"pi", "huge", "maxinteger", "mininteger">>

OsNames == <<"clock", "time", "difftime">>

RegisterNumbers(t, names) ==
    [t EXCEPT !.data = t.data \o [i \in 1..Len(names) |->
                          <<StrV(names[i]), <<"num", names[i]>>>>]]

table_lib == RegisterAll(EmptyTable, "table.", TableNames)
string_lib == RegisterAll(EmptyTable, "string.", StringNames)
math_lib ==
    RegisterNumbers(RegisterAll(EmptyTable, "math.", MathNames), MathNumbers)
os_lib == RegisterAll(EmptyTable, "os.", OsNames)

\* a library table is one shared object: where it is stored, it is kept as
\* a reference by name
Lib(name) == <<"lib", name>>

string_mt == rawset(EmptyTable, StrV("__index"), Lib("string"))

\* the table a reference stands for
LibTable(name) ==
    CASE name = "table" -> table_lib
      [] name = "string" -> string_lib
      [] name = "__string_mt" -> string_mt
      [] name = "math" -> math_lib
      [] name = "os" -> os_lib

\* the globals table install_stdlib leaves, its rawsets in the code's order
install_stdlib ==
    LET g1 == RegisterAll(EmptyTable, "", BasicNames)
        g2 == rawset(g1, StrV("table"), Lib("table"))
        g3 == rawset(g2, StrV("string"), Lib("string"))
        g4 == rawset(g3, StrV("__string_mt"), Lib("__string_mt"))
        g5 == rawset(g4, StrV("math"), Lib("math"))
        g6 == rawset(g5, StrV("os"), Lib("os"))
    IN rawset(g6, StrV("_VERSION"), StrV("Lua 5.5"))

(***************************************************************************)
(* interpreter.py: Environment; session.py: LuaSession set / get           *)
(***************************************************************************)
Names == {"x", "y"}
Unbound == <<"unbound">>        \* name not in Environment.vars

\* LuaSession._env as LuaSession.__init__ leaves it
EmptyEnv == [n \in Names |-> Unbound]

\* Environment.get_local on the session environment: <<value, found>>
get_local(env, n) ==
    IF env[n] # Unbound THEN <<env[n], TRUE>> ELSE <<Nil, FALSE>>

\* Environment.define
define(env, n, v) == [env EXCEPT ![n] = v]

\* Environment.set_existing on the session environment: <<env, done>>
set_existing(env, n, v) ==
    IF env[n] # Unbound THEN <<[env EXCEPT ![n] = v], TRUE>>
    ELSE <<env, FALSE>>

\* LuaSession.get before the conversion, reading only the globals table
GlobalsOnly(n) == rawget(globals, StrV(n))

\* LuaSession.get before the conversion
Lookup(n) ==
    LET r == get_local(senv, n) IN
    IF r[2] THEN r[1] ELSE rawget(globals, StrV(n))

\* Interpreter._get_var from a scope with no local of that name: the chunk
\* of execute, the child scope of eval, or a function called from either
\* all end in the session environment
get_var(n) ==
    LET r == get_local(senv, n) IN
    IF r[2] THEN r[1]
    ELSE LET gval == rawget(globals, StrV(n)) IN
         IF gval # Nil THEN gval ELSE Nil

(***************************************************************************)
(* The parts of the state a specification does not move.                   *)
(***************************************************************************)
NoResult == <<"none">>
NoRead == [by |-> "none", n |-> "x", v |-> Nil]
NoWrite == <<"none">>

\* a session just constructed, with the largest budgets
CtlIdle ==
    /\ max_instructions = MaxInstructions
    /\ max_call_depth = MaxCallDepth
    /\ max_output_bytes = MaxOutputBytes
    /\ instructions = 0
    /\ call_depth = 0
    /\ output = <<>>
    /\ output_bytes = 0
    /\ stack = <<>>
    /\ exc = "none"
    /\ phase = "idle"
    /\ call = "none"
    /\ outcome = "none"
    /\ begun = 0

TblIdle == tbl = EmptyTable /\ conv = NoResult

BrIdle == hv = Nil /\ pv = Nil /\ bpc = "idle"

NoCallee == [entered |-> FALSE, recv |-> <<>>, did |-> NoOutcome]

\* no library call is being followed
LibIdle ==
    /\ lpc = "idle"
    /\ largs = <<>>
    /\ lcallee = NoCallee
    /\ lres = NoOutcome

\* LuaSession.__init__: install_stdlib(self.interpreter), Environment()
SesInit ==
    /\ globals = install_stdlib
    /\ senv = EmptyEnv
    /\ got = NoRead
    /\ wrote = [n \in Names |-> NoWrite]

(***************************************************************************)
(* Exceptions (errors.py).                                                 *)
(***************************************************************************)
\* LuaRuntimeError, by the place that raises it
RuntimeErrors == {"quota", "overflow", "pyoverflow", "outlimit", "error"}
\* BreakSignal, ReturnSignal: subclasses of BaseException
ControlSignals == {"BreakSignal", "ReturnSignal"}
\* what `except Exception` catches
Exceptions == RuntimeErrors \cup {"RecursionError"}

\* the class of exception the host sees
ErrorClass(e) ==
    IF e \in RuntimeErrors THEN "LuaRuntimeError" ELSE e

\* the message of a LuaRuntimeError
Message(e) ==
    CASE e = "quota" -> "execution quota exceeded"
      [] e \in {"overflow", "pyoverflow"} -> "stack overflow"
      [] e = "outlimit" -> "output limit exceeded"
      [] OTHER -> "?"

(***************************************************************************)
(* Frames.                                                                 *)
(***************************************************************************)
ChunkKinds == {"execute", "eval"}
LoopKinds == {"while", "repeat", "numfor", "genfor"}
BlockKinds == ChunkKinds \cup {"fn"} \cup LoopKinds
StmtKinds == {"expr", "return", "break", "goto"} \cup LoopKinds

Frame(k, s) == [k |-> k, s |-> s]
Top == stack[Len(stack)]
Pop(stk) == SubSeq(stk, 1, Len(stk) - 1)
SetTop(stk, s) == [stk EXCEPT ![Len(stk)].s = s]

\* statuses in which a frame is inside a loop body
BodyStatus == {"blk", "expr", "ret", "loop"}
\* statuses in which the frame evaluates expressions, so calls can happen
CallStatus == {"expr", "ret", "head", "iter", "call", "handler"}

Running == phase = "running" /\ exc = "none" /\ stack # <<>>
CanCall == Running /\ Top.s \in CallStatus

\* the caller's frame once its callee has returned
AfterCall(f) ==
    IF f.k \in {"pcall", "xpcall", "mm", "host"} THEN Frame(f.k, "done")
    ELSE IF f.s = "loop" THEN Frame(f.k, "blk")
    ELSE f

Resume(stk) ==
    IF stk = <<>> THEN stk
    ELSE [stk EXCEPT ![Len(stk)] = AfterCall(stk[Len(stk)])]

\* user-function calls in progress
RECURSIVE ActiveCalls(_)
ActiveCalls(stk) ==
    IF stk = <<>> THEN 0
    ELSE ActiveCalls(Pop(stk)) + (IF stk[Len(stk)].k = "fn" THEN 1 ELSE 0)

LeaveCallNot(d) == d

\* _call_function, finally: self.call_depth -= 1
LeaveCall(d) == d - 1

RECURSIVE SumRecords(_)
SumRecords(out) ==
    IF out = <<>> THEN 0
    ELSE SumRecords(Pop(out)) + out[Len(out)] + 1

(***************************************************************************)
(* Interpreter._tick                                                       *)
(***************************************************************************)
QuotaExceededLate(n) == n > max_instructions + 1

QuotaExceededOnce(n) == n = max_instructions + 1

QuotaExceeded(n) == n > max_instructions

\* the host stack has no room for one more frame
StackExhausted == Len(stack) >= PyRecursionLimit

Init ==
    /\ max_instructions \in {1, MaxInstructions}
    /\ max_call_depth \in {1, MaxCallDepth}
    /\ max_output_bytes \in {1, MaxOutputBytes}
    /\ instructions = 0
    /\ call_depth = 0
    /\ output = <<>>
    /\ output_bytes = 0
    /\ stack = <<>>
    /\ exc = "none"
    /\ phase = "idle"
    /\ call = "none"
    /\ outcome = "none"
    /\ begun = 0
    /\ TblIdle /\ BrIdle /\ SesInit /\ LibIdle

Budgets == <<max_instructions, max_call_depth, max_output_bytes>>

(***************************************************************************)
(* LuaSession.execute up to the parse                                      *)
(***************************************************************************)
Execute ==
    /\ phase = "idle"
    /\ output' = <<>>
    /\ instructions' = 0
    /\ output_bytes' = 0
    /\ phase' = "parsing"
    /\ call' = "execute"
    /\ outcome' = "none"
    /\ begun' = 0
    /\ UNCHANGED <<aux, Budgets, call_depth, stack, exc>>

(***************************************************************************)
(* LuaSession.eval / _eval_with_return up to the parse                     *)
(***************************************************************************)
Eval ==
    /\ phase = "idle"
    /\ instructions' = 0
    /\ phase' = "parsing"
    /\ call' = "eval"
    /\ outcome' = "none"
    /\ begun' = 0
    /\ UNCHANGED <<aux, Budgets, call_depth, output, output_bytes, stack, exc>>

(***************************************************************************)
(* Parser(code).parse() and the entry into Interpreter.execute             *)
(***************************************************************************)
Parse ==
    /\ phase = "parsing"
    /\ \E ok \in BOOLEAN :
         IF ok
         THEN /\ phase' = "running"
              /\ stack' = <<Frame(call, "blk")>>
              /\ outcome' = outcome
         ELSE /\ phase' = "idle"
              /\ stack' = stack
              /\ outcome' = "LuaSyntaxError"
    /\ UNCHANGED <<aux, Budgets, instructions, call_depth, output, output_bytes,
                   exc, call, begun>>

(***************************************************************************)
(* Interpreter._exec_stmt: the tick, then the statement by its kind        *)
(***************************************************************************)
ExecStmt ==
    /\ Running
    /\ Top.k \in BlockKinds
    /\ Top.s = "blk"
    /\ instructions <= max_instructions + Overrun
    /\ instructions' = instructions + 1
    /\ \E kind \in StmtKinds :
         /\ Top.k = "eval" => kind = "return"
         /\ IF QuotaExceeded(instructions')
            THEN /\ exc' = "quota"
                 /\ UNCHANGED <<stack, begun>>
            ELSE /\ begun' = begun + 1
                 /\ CASE kind = "expr" ->
                           /\ stack' = SetTop(stack, "expr")
                           /\ exc' = exc
                      [] kind = "return" ->
                           /\ stack' = SetTop(stack, "ret")
                           /\ exc' = exc
                      [] kind = "break" ->
                           /\ stack' = stack
                           /\ exc' = "BreakSignal"
                      [] kind = "goto" ->
                           /\ stack' = stack
                           /\ exc' = exc
                      [] kind \in LoopKinds ->
                           IF StackExhausted
                           THEN /\ stack' = stack
                                /\ exc' = "RecursionError"
                           ELSE /\ stack' = Append(SetTop(stack, "loop"),
                                       Frame(kind, IF kind = "repeat"
                                                   THEN "start" ELSE "head"))
                                /\ exc' = exc
    /\ UNCHANGED <<aux, Budgets, call_depth, output, output_bytes, phase, call,
                   outcome>>

\* a statement other than return completes
EndStmt ==
    /\ Running
    /\ Top.s = "expr"
    /\ stack' = SetTop(stack, "blk")
    /\ UNCHANGED <<aux, Budgets, instructions, call_depth, output, output_bytes,
                   exc, phase, call, outcome, begun>>

\* Interpreter._exec_stmt, ReturnStatement: the values are evaluated
RaiseReturn ==
    /\ Running
    /\ Top.s = "ret"
    /\ exc' = "ReturnSignal"
    /\ UNCHANGED <<aux, Budgets, instructions, call_depth, output, output_bytes,
                   stack, phase, call, outcome, begun>>

(***************************************************************************)
(* Interpreter._exec_block runs off the end of its statements              *)
(***************************************************************************)
EndBlock ==
    /\ Running
    /\ Top.s = "blk"
    /\ CASE Top.k \in ChunkKinds ->
              /\ stack' = <<>>
              /\ phase' = "idle"
              /\ outcome' = "ok"
              /\ call_depth' = call_depth
         [] Top.k = "fn" ->
              /\ stack' = Resume(Pop(stack))
              /\ call_depth' = LeaveCall(call_depth)
              /\ UNCHANGED <<phase, outcome>>
         [] Top.k \in {"while", "repeat"} ->
              /\ stack' = SetTop(stack, "head")
              /\ UNCHANGED <<phase, outcome, call_depth>>
         [] Top.k \in {"numfor", "genfor"} ->
              /\ stack' = SetTop(stack, "start")
              /\ UNCHANGED <<phase, outcome, call_depth>>
    /\ UNCHANGED <<aux, Budgets, instructions, output, output_bytes, exc, call,
                   begun>>

(***************************************************************************)
(* The loops: _exec_while, _exec_repeat, _exec_numeric_for,                *)
(* _exec_generic_for                                                       *)
(***************************************************************************)
LoopTick ==
    /\ Running
    /\ Top.k \in LoopKinds
    /\ Top.s \in {"head", "start"}
    /\ instructions <= max_instructions + Overrun
    /\ instructions' = instructions + 1
    /\ IF QuotaExceeded(instructions')
       THEN /\ exc' = "quota"
            /\ UNCHANGED <<stack, begun>>
       ELSE /\ begun' = begun + 1
            /\ exc' = exc
            /\ stack' = SetTop(stack,
                          CASE Top.k \in {"while", "repeat"} -> "blk"
                            [] Top.k = "numfor" -> "test"
                            [] Top.k = "genfor" -> "iter")
    /\ UNCHANGED <<aux, Budgets, call_depth, output, output_bytes, phase, call,
                   outcome>>

\* the for loops enter the body after the test or the iterator call
LoopBody ==
    /\ Running
    /\ Top.s \in {"test", "iter"}
    /\ stack' = SetTop(stack, "blk")
    /\ UNCHANGED <<aux, Budgets, instructions, call_depth, output, output_bytes,
                   exc, phase, call, outcome, begun>>

LoopExit ==
    /\ Running
    /\ \/ Top.k \in {"while", "repeat"} /\ Top.s = "head"
       \/ Top.s \in {"test", "iter"}
    /\ stack' = Resume(Pop(stack))
    /\ UNCHANGED <<aux, Budgets, instructions, call_depth, output, output_bytes,
                   exc, phase, call, outcome, begun>>

(***************************************************************************)
(* Interpreter._call_function on a LuaFunction                             *)
(***************************************************************************)
DepthExceededLate(d) == d > max_call_depth + 1

DepthExceeded(d) == d > max_call_depth

CallLuaFunction ==
    /\ CanCall
    /\ IF DepthExceeded(call_depth + 1)
       THEN /\ exc' = "overflow"
            /\ UNCHANGED <<stack, call_depth>>
       ELSE IF StackExhausted
       THEN /\ exc' = "pyoverflow"
            /\ UNCHANGED <<stack, call_depth>>
       ELSE /\ stack' = Append(stack, Frame("fn", "blk"))
            /\ call_depth' = call_depth + 1
            /\ exc' = exc
    /\ UNCHANGED <<aux, Budgets, instructions, output, output_bytes, phase, call,
                   outcome, begun>>

(***************************************************************************)
(* install_stdlib._print                                                   *)
(***************************************************************************)
OutputExceededLate(b) == b > max_output_bytes + 1

OutputExceeded(b) == b > max_output_bytes

\* print of one record of n characters
PrintLine(n) ==
    /\ CanCall
    /\ output_bytes <= max_output_bytes + Overrun
    /\ output_bytes' = output_bytes + n + 1
    /\ IF OutputExceeded(output_bytes')
       THEN /\ exc' = "outlimit"
            /\ UNCHANGED <<output, stack>>
       ELSE /\ output' = Append(output, n)
            /\ stack' = Resume(stack)
            /\ exc' = exc
    /\ UNCHANGED <<aux, Budgets, instructions, call_depth, phase, call, outcome,
                   begun>>

CallPrint == \E n \in 0..MaxLine : PrintLine(n)

(***************************************************************************)
(* install_stdlib._error, and every other raise of LuaRuntimeError in the  *)
(* evaluation of an expression                                             *)
(***************************************************************************)
CallError ==
    /\ CanCall
    /\ exc' = "error"
    /\ UNCHANGED <<aux, Budgets, instructions, call_depth, output, output_bytes,
                   stack, phase, call, outcome, begun>>

(***************************************************************************)
(* install_stdlib._pcall enters its try                                    *)
(***************************************************************************)
CallPcall ==
    /\ CanCall
    /\ IF StackExhausted
       THEN /\ exc' = "RecursionError"
            /\ stack' = stack
       ELSE /\ stack' = Append(stack, Frame("pcall", "call"))
            /\ exc' = exc
    /\ UNCHANGED <<aux, Budgets, instructions, call_depth, output, output_bytes,
                   phase, call, outcome, begun>>

(***************************************************************************)
(* One link of a metamethod chain: _table_get / _table_set recursing into  *)
(* an __index / __newindex table, _call_function recursing into __call     *)
(***************************************************************************)
MetaStep ==
    /\ CanCall
    /\ IF StackExhausted
       THEN /\ exc' = "RecursionError"
            /\ stack' = stack
       ELSE /\ stack' = Append(stack, Frame("mm", "call"))
            /\ exc' = exc
    /\ UNCHANGED <<aux, Budgets, instructions, call_depth, output, output_bytes,
                   phase, call, outcome, begun>>

\* pcall returns after its call; a link of a chain returns its value
Return ==
    /\ Running
    /\ \/ Top.k = "pcall" /\ Top.s = "done"
       \/ Top.k = "mm"
    /\ stack' = Resume(Pop(stack))
    /\ UNCHANGED <<aux, Budgets, instructions, call_depth, output, output_bytes,
                   exc, phase, call, outcome, begun>>

(***************************************************************************)
(* An exception leaves the innermost frame: the except and finally         *)
(* clauses of _call_function, _call_lua_function, the loops, _pcall,       *)
(* _xpcall, _eval_with_return, and the wrapper of _function_to_python      *)
(***************************************************************************)
\* _pcall: except (LuaRuntimeError, LuaError), except Exception
PcallCatches(e) == e \in Exceptions
\* _xpcall: except Exception, around the call and around the handler
XpcallCatches(e) == e \in Exceptions

Unwind ==
    /\ phase = "running"
    /\ exc # "none"
    /\ stack # <<>>
    /\ CASE Top.k = "fn" ->
              /\ call_depth' = LeaveCall(call_depth)
              /\ IF exc = "ReturnSignal"
                 THEN /\ stack' = Resume(Pop(stack))
                      /\ exc' = "none"
                 ELSE /\ stack' = Pop(stack)
                      /\ exc' = IF exc = "RecursionError"
                                THEN "pyoverflow" ELSE exc
              /\ UNCHANGED <<phase, outcome>>
         [] Top.k \in LoopKinds ->
              /\ IF exc = "BreakSignal" /\ Top.s \in BodyStatus
                 THEN /\ stack' = Resume(Pop(stack))
                      /\ exc' = "none"
                 ELSE /\ stack' = Pop(stack)
                      /\ exc' = exc
              /\ UNCHANGED <<phase, outcome, call_depth>>
         [] Top.k = "pcall" ->
              /\ IF PcallCatches(exc)
                 THEN /\ stack' = SetTop(stack, "done")
                      /\ exc' = "none"
                 ELSE /\ stack' = Pop(stack)
                      /\ exc' = exc
              /\ UNCHANGED <<phase, outcome, call_depth>>
         [] Top.k = "xpcall" ->
              /\ IF XpcallCatches(exc)
                 THEN /\ stack' = SetTop(stack, IF Top.s = "call"
                                                THEN "handler" ELSE "done")
                      /\ exc' = "none"
                 ELSE /\ stack' = Pop(stack)
                      /\ exc' = exc
              /\ UNCHANGED <<phase, outcome, call_depth>>
         [] Top.k = "mm" ->
              /\ stack' = Pop(stack)
              /\ UNCHANGED <<exc, phase, outcome, call_depth>>
         [] Top.k = "host" ->
              /\ stack' = <<>>
              /\ phase' = "idle"
              /\ outcome' = exc
              /\ exc' = "none"
              /\ call_depth' = call_depth
         [] Top.k = "execute" ->
              /\ stack' = <<>>
              /\ phase' = "idle"
              /\ outcome' = exc
              /\ exc' = "none"
              /\ call_depth' = call_depth
         [] Top.k = "eval" ->
              /\ stack' = <<>>
              /\ phase' = "idle"
              /\ outcome' = IF exc = "ReturnSignal" THEN "ok" ELSE exc
              /\ exc' = "none"
              /\ call_depth' = call_depth
    /\ UNCHANGED <<aux, Budgets, instructions, output, output_bytes, call, begun>>

Next ==
    \/ Execute
    \/ Eval
    \/ Parse
    \/ ExecStmt
    \/ EndStmt
    \/ RaiseReturn
    \/ EndBlock
    \/ LoopTick
    \/ LoopBody
    \/ LoopExit
    \/ CallLuaFunction
    \/ CallPrint
    \/ CallError
    \/ CallPcall
    \/ MetaStep
    \/ Return
    \/ Unwind

Spec == Init /\ [][Next]_vars

(***************************************************************************)
(* SpecTable: one LuaTable                                                 *)
(***************************************************************************)
TableKeys ==
    {IntV(k) : k \in 1..MaxKey}
    \cup {BoolV(TRUE), StrV("1"), <<"float", 1, 0>>}
TableValues == {StrV("v"), <<"table", EmptyTable>>}

InitTable == CtlIdle /\ TblIdle /\ BrIdle /\ SesInit /\ LibIdle

\* t[k] = v with no metatable, rawset(t, k, v)
TblRawset ==
    \E k \in TableKeys, v \in TableValues \cup {Nil} :
        /\ tbl' = rawset(tbl, k, v)
        /\ conv' = NoResult
        /\ UNCHANGED <<ctl, libVars, brVars, sesVars>>

\* #t with no metatable, rawlen(t)
TblLength ==
    /\ tbl' = AfterLength(tbl)
    /\ conv' = <<"len", length(tbl)>>
    /\ UNCHANGED <<ctl, libVars, brVars, sesVars>>

\* the table returned to the host: LuaSession._to_python
TblToPython ==
    /\ tbl' = AfterLength(tbl)
    /\ conv' = <<"py", TableToPython(tbl)>>
    /\ UNCHANGED <<ctl, libVars, brVars, sesVars>>

NextTable == TblRawset \/ TblLength \/ TblToPython

SpecTable == InitTable /\ [][NextTable]_vars

(***************************************************************************)
(* SpecBridge: session.set("x", v) then session.get("x")                   *)
(***************************************************************************)
HostAtoms == {Nil, BoolV(TRUE), IntV(1), StrV("a")}
HostKeys == {Nil, BoolV(TRUE), IntV(1), IntV(2), StrV("a")}

\* the sequences a Python dict can hold: no two keys equal
DictItems(vals, len) ==
    {d \in [1..len -> HostKeys \X vals] :
        \A i, j \in 1..len : i < j => PyKey(d[i][1]) # PyKey(d[j][1])}

Lists(vals) ==
    {<<"list", l>> : l \in UNION {[1..len -> vals] : len \in 0..MaxLen}}

Dicts(vals) ==
    {<<"dict", d>> : d \in UNION {DictItems(vals, len) : len \in 0..MaxLen}}

FlatValues == HostAtoms \cup Lists(HostAtoms) \cup Dicts(HostAtoms)

\* one more level: a list of one container, a dict of one container
HostValues ==
    FlatValues
    \cup {<<"list", <<v>>>> : v \in FlatValues \ HostAtoms}
    \cup {<<"dict", <<<<StrV("a"), v>>>>>> : v \in FlatValues \ HostAtoms}

InitBridge ==
    /\ CtlIdle /\ TblIdle /\ SesInit /\ LibIdle
    /\ hv \in HostValues
    /\ pv = Nil
    /\ bpc = "start"

\* LuaSession.set("x", hv)
BridgeSet ==
    /\ bpc = "start"
    /\ senv' = define(senv, "x", ToLua(hv))
    /\ globals' = rawset(globals, StrV("x"), ToLua(hv))
    /\ bpc' = "set"
    /\ UNCHANGED <<ctl, libVars, tblVars, hv, pv, got, wrote>>

\* LuaSession.get("x")
BridgeGet ==
    /\ bpc = "set"
    /\ pv' = ToPython(Lookup("x"))
    /\ bpc' = "got"
    /\ UNCHANGED <<ctl, libVars, tblVars, hv, sesVars>>

NextBridge == BridgeSet \/ BridgeGet

SpecBridge == InitBridge /\ [][NextBridge]_vars

(***************************************************************************)
(* SpecSession: the names of one session                                   *)
(***************************************************************************)
SessionValues == {Nil} \cup {IntV(i) : i \in 1..MaxVal}

InitSession == CtlIdle /\ TblIdle /\ BrIdle /\ SesInit /\ LibIdle

\* LuaSession.set(n, v)
SessSet ==
    \E n \in Names, v \in SessionValues :
        /\ senv' = define(senv, n, ToLua(v))
        /\ globals' = rawset(globals, StrV(n), ToLua(v))
        /\ wrote' = [wrote EXCEPT ![n] = <<"set", v>>]
        /\ got' = NoRead
        /\ UNCHANGED <<ctl, libVars, tblVars, brVars>>

\* `n = e` run by execute, at the top of the chunk or in a function that
\* has no local n: Interpreter._assign_target
ExecAssign ==
    \E n \in Names, v \in SessionValues, scope \in {"chunk", "fn"} :
        LET r == set_existing(senv, n, v) IN
        /\ senv' = r[1]
        /\ globals' = IF r[2] THEN globals ELSE rawset(globals, StrV(n), v)
        /\ wrote' = [wrote EXCEPT ![n] = <<scope, v>>]
        /\ got' = NoRead
        /\ UNCHANGED <<ctl, libVars, tblVars, brVars>>

\* LuaSession.get(n)
SessGet ==
    \E n \in Names :
        /\ got' = [by |-> "get", n |-> n, v |-> ToPython(Lookup(n))]
        /\ UNCHANGED <<ctl, libVars, tblVars, brVars, globals, senv, wrote>>

\* the name n read by a later execute or eval, at the top of the chunk or
\* in a function: Interpreter._get_var
ScriptRead ==
    \E n \in Names, by \in {"execute", "eval", "fn"} :
        /\ got' = [by |-> by, n |-> n, v |-> get_var(n)]
        /\ UNCHANGED <<ctl, libVars, tblVars, brVars, globals, senv, wrote>>

NextSession == SessSet \/ ExecAssign \/ SessGet \/ ScriptRead

SpecSession == InitSession /\ [][NextSession]_vars


(***************************************************************************)
(* SpecPcall: one pcall(f, a1, ..., an), stdlib.py _pcall                  *)
(***************************************************************************)
\* a LuaFunction
Fn(name) == <<"fn", name>>

ArgValues == {Nil, IntV(1), StrV("a")}
ArgLists == UNION {[1..n -> ArgValues] : n \in 0..MaxArgs}

\* what pcall can be given to call
Callees == {Fn("f"), Builtin("error"), Nil, IntV(1)}

\* _lua_type, for the values used here
lua_type(v) ==
    CASE v[1] = "nil" -> "nil"
      [] v[1] = "bool" -> "boolean"
      [] v[1] \in {"int", "float"} -> "number"
      [] v[1] = "str" -> "string"
      [] v[1] \in {"table", "lib", "ref"} -> "table"
      [] OTHER -> "function"

\* the classes `except Exception` catches, among those that can arrive
CaughtClasses == {"LuaRuntimeError", "RecursionError", "ValueError"}

\* what a called function can do: return values, or raise
CalleeOutcomes ==
    {Returned(rs) : rs \in ArgLists}
    \cup {Raised("LuaRuntimeError", m) :
            m \in {"boom", "execution quota exceeded", "stack overflow"}}
    \cup {Raised("RecursionError", "maximum recursion depth exceeded"),
          Raised("ValueError", "chr() arg not in range(0x110000)"),
          Raised("BreakSignal", "")}

\* call_args = list(args[1:]), were the function left in
PcallArgsWhole(args) == args

\* call_args = list(args[1:])
PcallArgs(args) == IF args = <<>> THEN <<>> ELSE Tail(args)

\* func = args[0] if args else None
PcallFunc(args) == IF args = <<>> THEN Nil ELSE args[1]

\* Interpreter._call_function(func, args): does func get called at all
IsCallable(func) == func[1] \in {"fn", "builtin"}

\* Interpreter._call_function(func, args) on a value with no __call
NotCallable(func) ==
    Raised("LuaRuntimeError",
           "attempt to call a " \o lua_type(func) \o " value")

\* _pcall's try / except around the call, given the call's outcome
Pcall(out) ==
    IF out.kind = "return" THEN Returned(<<BoolV(TRUE)>> \o out.vals)
    ELSE IF out.class \in CaughtClasses
         THEN Returned(<<BoolV(FALSE), StrV(out.msg)>>)
         ELSE out

InitPcall ==
    /\ CtlIdle /\ TblIdle /\ BrIdle /\ SesInit
    /\ lpc = "start"
    /\ largs = <<>>
    /\ lcallee = NoCallee
    /\ lres = NoOutcome

\* pcall(f, ...) with a function: f is entered with the rest of the arguments
PcallEnter ==
    /\ lpc = "start"
    /\ \E f \in Callees, rest \in ArgLists :
          LET args == <<f>> \o rest IN
          /\ IsCallable(PcallFunc(args))
          /\ largs' = args
          /\ lcallee' = [entered |-> TRUE, recv |-> PcallArgs(args),
                         did |-> NoOutcome]
    /\ lpc' = "callee"
    /\ UNCHANGED <<ctl, tblVars, brVars, sesVars, lres>>

\* pcall() or pcall(v, ...) with v not callable: the call raises at once
PcallNotCallable ==
    /\ lpc = "start"
    /\ \E args \in {<<>>} \cup {<<f>> \o rest : f \in Callees,
                                               rest \in ArgLists} :
          /\ ~IsCallable(PcallFunc(args))
          /\ largs' = args
          /\ lres' = Pcall(NotCallable(PcallFunc(args)))
    /\ lpc' = "next"
    /\ UNCHANGED <<ctl, tblVars, brVars, sesVars, lcallee>>

\* the function called finishes, and pcall with it
PcallDone ==
    /\ lpc = "callee"
    /\ \E out \in CalleeOutcomes :
          /\ lcallee' = [lcallee EXCEPT !.did = out]
          /\ lres' = Pcall(out)
          /\ lpc' = IF Pcall(out).kind = "return" THEN "next" ELSE "unwound"
    /\ UNCHANGED <<ctl, tblVars, brVars, sesVars, largs>>

NextPcall == PcallEnter \/ PcallNotCallable \/ PcallDone

SpecPcall == InitPcall /\ [][NextPcall]_vars

(***************************************************************************)
(* SpecExplist: a list of expressions parsed and evaluated, as an argument *)
(* list, a return list, the right-hand side of an assignment or the        *)
(* positional fields of a table constructor                                *)
(***************************************************************************)
\* source expressions: a literal, a call f() whose results are rs, and
\* either of them in parentheses
PlainExprs ==
    {<<"lit", v>> : v \in ArgValues} \cup {<<"call", rs>> : rs \in ArgLists}
SourceExprs == PlainExprs \cup {<<"paren", e>> : e \in PlainExprs}
ExpLists ==
    {<<e>> : e \in SourceExprs}
    \cup {<<p, e>> : p \in {<<"lit", IntV(1)>>, <<"call", <<>>>>,
                            <<"paren", <<"call", <<StrV("a"), Nil>>>>>>},
                     e \in SourceExprs}
Contexts == {"args", "return", "assign", "table"}

\* Parser._parse_primary on `(` expr `)`: the node of the expression inside
parse_primary(e) == IF e[1] = "paren" THEN e[2] ELSE e

\* Interpreter._eval: a call node gives a MultiRes
eval(node) ==
    IF node[1] = "call" THEN <<"MultiRes", node[2]>> ELSE node[2]

\* _first
first(v) ==
    IF v[1] = "MultiRes" THEN (IF v[2] = <<>> THEN Nil ELSE v[2][1]) ELSE v

\* Interpreter._eval_explist; _eval_table_ctor treats its positional fields
\* the same way
eval_explist(nodes) ==
    LET n == Len(nodes)
        val == eval(nodes[n])
    IN [i \in 1..(n - 1) |-> first(eval(nodes[i]))]
       \o (IF val[1] = "MultiRes" THEN val[2] ELSE <<val>>)

\* the values the list contributes: to the callee, to the caller, to the
\* assignment, or as the table built
Contribution(ctx, vals) ==
    IF ctx = "table" THEN <<<<"table", ListToLua(vals, 1, EmptyTable)>>>>
    ELSE vals

InitExplist ==
    /\ CtlIdle /\ TblIdle /\ BrIdle /\ SesInit
    /\ lpc = "start"
    /\ largs \in [ctx : Contexts, exps : ExpLists]
    /\ lcallee = NoCallee
    /\ lres = NoOutcome

ExplistEval ==
    /\ lpc = "start"
    /\ lres' = Returned(Contribution(largs.ctx,
                  eval_explist([i \in 1..Len(largs.exps) |->
                                   parse_primary(largs.exps[i])])))
    /\ lpc' = "next"
    /\ UNCHANGED <<ctl, tblVars, brVars, sesVars, largs, lcallee>>

NextExplist == ExplistEval

SpecExplist == InitExplist /\ [][NextExplist]_vars

(***************************************************************************)
(* SpecNext: a script walks one table with next, starting from             *)
(* next(t, nil) and passing each returned key back, while the table is     *)
(* written to.  lres.seen is the list of keys the walk has returned;       *)
(* lres.intact says that every write since the walk began overwrote the    *)
(* value of a key the script had already set.                              *)
(***************************************************************************)
TraverseKeys == {IntV(1), IntV(2), BoolV(TRUE)}
TraverseValues == {StrV("v"), StrV("w")}

\* stdlib.py: _next, for a table argument
stdlib_next(t, key) ==
    LET r == next(t, key) IN
    IF r.kind = "raise" THEN r
    ELSE IF r.vals[1] = Nil THEN Returned(<<Nil>>)
    ELSE r

\* the walk after a call of next that gave r
WalkPc(r) ==
    IF r.kind = "raise" THEN "failed"
    ELSE IF r.vals[1] = Nil THEN "done"
    ELSE "iter"

InitNext == CtlIdle /\ TblIdle /\ BrIdle /\ SesInit /\ LibIdle

\* rawset(t, k, v), at any point of the walk
NxRawset ==
    \E k \in TraverseKeys, v \in TraverseValues \cup {Nil} :
        /\ tbl' = rawset(tbl, k, v)
        /\ conv' = NoResult
        /\ lres' = IF lpc = "idle" THEN lres
                   ELSE [lres EXCEPT !.intact =
                            /\ @
                            /\ v # Nil
                            /\ LuaKey(k) \in {LuaKey(x) : x \in Keys(tbl)}]
        /\ UNCHANGED <<ctl, brVars, sesVars, lpc, largs, lcallee>>

\* k, v = next(t, nil): a walk begins
NxBegin ==
    /\ lpc \in {"idle", "done", "failed"}
    /\ LET r == stdlib_next(tbl, Nil) IN
       /\ tbl' = AfterNext(tbl)
       /\ conv' = <<"next", Nil, r>>
       /\ lpc' = WalkPc(r)
       /\ largs' = IF WalkPc(r) = "iter" THEN <<r.vals[1]>> ELSE <<>>
       /\ lres' = [seen |-> IF WalkPc(r) = "iter" THEN <<r.vals[1]>> ELSE <<>>,
                   intact |-> TRUE]
    /\ UNCHANGED <<ctl, brVars, sesVars, lcallee>>

\* k, v = next(t, k): the walk goes on from the key it was given last
NxStep ==
    /\ lpc = "iter"
    /\ Len(lres.seen) < MaxSeen
    /\ LET r == stdlib_next(tbl, largs[1]) IN
       /\ tbl' = AfterNext(tbl)
       /\ conv' = <<"next", largs[1], r>>
       /\ lpc' = WalkPc(r)
       /\ largs' = IF WalkPc(r) = "iter" THEN <<r.vals[1]>> ELSE <<>>
       /\ lres' = IF WalkPc(r) = "iter"
                  THEN [lres EXCEPT !.seen = Append(@, r.vals[1])]
                  ELSE lres
    /\ UNCHANGED <<ctl, brVars, sesVars, lcallee>>

\* next(t, k) for any key k, outside the walk
NxProbe ==
    \E k \in TraverseKeys :
        /\ tbl' = AfterNext(tbl)
        /\ conv' = <<"next", k, stdlib_next(tbl, k)>>
        /\ UNCHANGED <<ctl, brVars, sesVars, libVars>>

NextNext == NxRawset \/ NxBegin \/ NxStep \/ NxProbe

SpecNext == InitNext /\ [][NextNext]_vars

(***************************************************************************)
(* SpecIpairs: a script calls ipairs(t) and then the iterator it returned, *)
(* with any control value, while t is written to.  lcallee.i is the        *)
(* counter `i` in the iterator's closure.                                  *)
(***************************************************************************)
\* the table held in the variable tbl, as a value passed around
TheTable == <<"ref", "tbl">>

InitIpairs == CtlIdle /\ TblIdle /\ BrIdle /\ SesInit /\ LibIdle

\* rawset(t, k, v)
IpRawset ==
    \E k \in 1..MaxKey, v \in {Nil, StrV("v"), StrV("w")} :
        /\ tbl' = rawset(tbl, IntV(k), v)
        /\ conv' = NoResult
        /\ UNCHANGED <<ctl, brVars, sesVars, libVars>>

\* _ipairs, for a table argument: i = [0], return [iterator, t, 0]
IpIpairs ==
    /\ lpc \in {"idle", "iter"}
    /\ lpc' = "iter"
    /\ largs' = <<TheTable>>
    /\ lcallee' = [i |-> 0]
    /\ lres' = Returned(<<Builtin("ipairs_iterator"), TheTable, IntV(0)>>)
    /\ conv' = NoResult
    /\ UNCHANGED <<ctl, brVars, sesVars, tbl>>

\* _iter(iter_args): i[0] += 1; val = t.rawget(i[0]); the arguments unread
ipairs_iterator(t, i) ==
    LET val == rawget(t, IntV(i + 1)) IN
    IF val = Nil THEN Returned(<<Nil>>)
    ELSE Returned(<<IntV(i + 1), val>>)

\* iter(t, a), for any control value a
IpIter ==
    /\ lpc = "iter"
    /\ lcallee.i <= MaxKey
    /\ \E a \in 0..MaxKey :
          conv' = <<"iter", a, ipairs_iterator(tbl, lcallee.i)>>
    /\ lcallee' = [i |-> lcallee.i + 1]
    /\ UNCHANGED <<ctl, brVars, sesVars, tbl, lpc, largs, lres>>

NextIpairs == IpRawset \/ IpIpairs \/ IpIter

SpecIpairs == InitIpairs /\ [][NextIpairs]_vars

(***************************************************************************)
(* SpecMeta: a script gives the table a metatable, writes the metatable's  *)
(* __metatable and __pairs fields, and calls setmetatable, getmetatable    *)
(* and pairs.  conv is the last call: its name, its argument after the     *)
(* table, and what it returned or raised.                                  *)
(***************************************************************************)
ProtValues == {Nil, StrV("locked"), BoolV(FALSE)}
PairsValues == {Nil, Fn("mm")}

\* { __metatable = p, __pairs = q }
MetatableOf(p, q) ==
    rawset(rawset(EmptyTable, StrV("__metatable"), p), StrV("__pairs"), q)

\* the second argument of setmetatable
MetaArgs ==
    {Nil, IntV(5)} \cup
    {<<"table", MetatableOf(p, q)>> : p \in ProtValues, q \in PairsValues}

\* the first argument of pairs
PairsArgs == {TheTable, StrV("s"), IntV(1)}

\* t._metatable.rawget("__metatable"), None with no metatable
Protection(t) ==
    IF t.metatable = Nil THEN Nil
    ELSE rawget(t.metatable[2], StrV("__metatable"))

\* _setmetatable without the __metatable check
setmetatable_unchecked(t, mt) ==
    IF mt # Nil /\ mt[1] # "table"
    THEN [out |-> Raised("LuaRuntimeError",
             "bad argument #2 to 'setmetatable' (nil or table expected)"),
          t |-> t]
    ELSE [out |-> Returned(<<TheTable>>), t |-> [t EXCEPT !.metatable = mt]]

\* _setmetatable, for a table first argument: the outcome and the table left
setmetatable(t, mt) ==
    IF mt # Nil /\ mt[1] # "table"
    THEN [out |-> Raised("LuaRuntimeError",
             "bad argument #2 to 'setmetatable' (nil or table expected)"),
          t |-> t]
    ELSE IF Protection(t) # Nil
    THEN [out |-> Raised("LuaRuntimeError",
             "cannot change a protected metatable"),
          t |-> t]
    ELSE [out |-> Returned(<<TheTable>>), t |-> [t EXCEPT !.metatable = mt]]

\* _getmetatable, for a table argument, its result as _call_function
\* returns it
getmetatable(t) ==
    IF t.metatable # Nil
    THEN IF Protection(t) # Nil THEN Returned(<<Protection(t)>>)
         ELSE Returned(<<t.metatable>>)
    ELSE Returned(<<Nil>>)

\* Interpreter._get_metamethod
get_metamethod(obj, t, name) ==
    LET mt == IF obj = TheTable THEN t.metatable
              ELSE IF obj[1] = "str" THEN <<"table", string_mt>>
              ELSE Nil
    IN IF mt = Nil THEN Nil ELSE rawget(mt[2], StrV(name))

\* _pairs: the metamethod it calls (nil for none) and, when it calls none,
\* what it returns or raises
pairs(v, t) ==
    IF v # TheTable
    THEN LET mm == get_metamethod(v, t, "__pairs") IN
         IF mm # Nil THEN [calls |-> mm, out |-> NoOutcome]
         ELSE [calls |-> Nil,
               out |-> Raised("LuaRuntimeError",
                         "bad argument #1 to 'pairs' (table expected)")]
    ELSE [calls |-> Nil, out |-> Returned(<<Builtin("next"), v, Nil>>)]

InitMeta == CtlIdle /\ TblIdle /\ BrIdle /\ SesInit /\ LibIdle

\* setmetatable(t, mt)
MtSetmetatable ==
    \E mt \in MetaArgs :
        /\ tbl' = setmetatable(tbl, mt).t
        /\ conv' = <<"setmetatable", mt, setmetatable(tbl, mt).out>>
        /\ lcallee' = NoCallee
        /\ UNCHANGED <<ctl, brVars, sesVars, lpc, largs, lres>>

\* getmetatable(t)
MtGetmetatable ==
    /\ conv' = <<"getmetatable", Nil, getmetatable(tbl)>>
    /\ lcallee' = NoCallee
    /\ UNCHANGED <<ctl, brVars, sesVars, tbl, lpc, largs, lres>>

\* mt.__metatable = v or mt.__pairs = v, mt the table's metatable
MtRawset ==
    /\ tbl.metatable # Nil
    /\ \E f \in {"__metatable", "__pairs"}, v \in ProtValues \cup PairsValues :
          tbl' = [tbl EXCEPT !.metatable =
                     <<"table", rawset(@[2], StrV(f), v)>>]
    /\ conv' = NoResult
    /\ lcallee' = NoCallee
    /\ UNCHANGED <<ctl, brVars, sesVars, lpc, largs, lres>>

\* pairs(v): a metamethod it calls is given v and its results are returned
MtPairs ==
    \E v \in PairsArgs, res \in {<<>>, <<IntV(1), StrV("a")>>} :
        LET p == pairs(v, tbl) IN
        /\ lcallee' = IF p.calls = Nil THEN NoCallee
                      ELSE [entered |-> TRUE, recv |-> <<v>>,
                            did |-> Returned(res)]
        /\ conv' = <<"pairs", v,
                     IF p.calls = Nil THEN p.out ELSE Returned(res)>>
        /\ UNCHANGED <<ctl, brVars, sesVars, tbl, lpc, largs, lres>>

NextMeta == MtSetmetatable \/ MtGetmetatable \/ MtRawset \/ MtPairs

SpecMeta == InitMeta /\ [][NextMeta]_vars

(***************************************************************************)
(* SpecPack: table.unpack(table.pack(...)).  largs are the arguments of    *)
(* pack, tbl the table it builds, lres what unpack returns, conv the       *)
(* field n as read.                                                        *)
(***************************************************************************)
PackValues == {Nil, IntV(1), StrV("a"), BoolV(TRUE)}
PackArgs == UNION {[1..n -> PackValues] : n \in 0..MaxPack}

\* for i, v in enumerate(args, 1): t.rawset(i, v)
RECURSIVE PackFrom(_, _, _)
PackFrom(t, args, i) ==
    IF i > Len(args) THEN t
    ELSE PackFrom(rawset(t, IntV(i), args[i]), args, i + 1)

\* _tbl_pack
tbl_pack(args) ==
    rawset(PackFrom(EmptyTable, args, 1), StrV("n"), IntV(Len(args)))

\* _unpack(t) with no i and no j: i = 1, j = t.length()
unpack(t) ==
    Returned([idx \in 1..IntOf(length(t)) |-> rawget(t, IntV(idx))])

InitPack ==
    /\ CtlIdle /\ TblIdle /\ BrIdle /\ SesInit
    /\ lpc = "start"
    /\ largs \in PackArgs
    /\ lcallee = NoCallee
    /\ lres = NoOutcome

\* t = table.pack(...)
PkPack ==
    /\ lpc = "start"
    /\ tbl' = tbl_pack(largs)
    /\ lpc' = "packed"
    /\ UNCHANGED <<ctl, brVars, sesVars, conv, largs, lcallee, lres>>

\* t.n
PkFieldN ==
    /\ lpc \in {"packed", "unpacked"}
    /\ conv' = <<"n", rawget(tbl, StrV("n"))>>
    /\ UNCHANGED <<ctl, brVars, sesVars, tbl, libVars>>

\* table.unpack(t)
PkUnpack ==
    /\ lpc = "packed"
    /\ lres' = unpack(tbl)
    /\ tbl' = AfterLength(tbl)
    /\ lpc' = "unpacked"
    /\ UNCHANGED <<ctl, brVars, sesVars, conv, largs, lcallee>>

NextPack == PkPack \/ PkFieldN \/ PkUnpack

SpecPack == InitPack /\ [][NextPack]_vars

(***************************************************************************)
(* SpecLexer: Parser(s).parse() for a source `x = "..."`, the lexer inside *)
(* the string literal (lexer.py, Lexer._read_string).  largs is the source *)
(* from the character after the opening quote on, one string per           *)
(* character; lcallee is the lexer's position in it and the buffer of      *)
(* characters read; lres is what parse returned or raised.                 *)
(***************************************************************************)
Quote == "\""
Backslash == "\\"
SrcChars == {"a", "g", "4", "9", "x", "u", "{", "}", Backslash}
HexDigits == {"a", "4", "9"}
DecDigits == {"4", "9"}

\* Lexer._char at position p, "" past the end
CharAt(src, p) == IF p <= Len(src) THEN src[p] ELSE ""

SyntaxError(msg) == Raised("LuaSyntaxError", msg)

\* an escape read whole: the position after it and the character it gave
Escaped(p, piece) == [kind |-> "ok", pos |-> p, piece |-> piece]

DigitValue(c) == CASE c = "4" -> 4 [] c = "9" -> 9 [] c = "a" -> 10

\* int(digits, base) for a string of digits of that base
RECURSIVE NumberOf(_, _)
NumberOf(digits, base) ==
    IF digits = <<>> THEN 0
    ELSE NumberOf(SubSeq(digits, 1, Len(digits) - 1), base) * base
         + DigitValue(digits[Len(digits)])

\* int(hex_str, 16) raises ValueError unless hex_str is a hex numeral
IsHexNumeral(s) == s # <<>> /\ \A i \in 1..Len(s) : s[i] \in HexDigits

\* the place of the first "}" at or after p, 0 when there is none
ClosingBrace(src, p) ==
    LET S == {i \in p..Len(src) : src[i] = "}"} IN
    IF S = {} THEN 0 ELSE CHOOSE i \in S : \A j \in S : i <= j

\* how many of the characters at p, p+1, p+2 are digits in a row
DigitRun(src, p) ==
    IF CharAt(src, p) \notin DecDigits THEN 0
    ELSE IF CharAt(src, p + 1) \notin DecDigits THEN 1
    ELSE IF CharAt(src, p + 2) \notin DecDigits THEN 2
    ELSE 3

\* _read_string, the branch for a backslash at position p
Escape(src, p) ==
    LET esc == CharAt(src, p + 1) IN
    CASE esc \in {"a", Backslash, Quote} -> Escaped(p + 2, <<"chr", esc>>)
      [] esc = "x" ->
           IF /\ CharAt(src, p + 2) \in HexDigits
              /\ CharAt(src, p + 3) \in HexDigits
           THEN Escaped(p + 4,
                        <<"chr", NumberOf(SubSeq(src, p + 2, p + 3), 16)>>)
           ELSE SyntaxError("invalid escape sequence")
      [] esc = "u" ->
           IF CharAt(src, p + 2) # "{"
           THEN SyntaxError("invalid escape sequence")
           ELSE LET close == ClosingBrace(src, p + 3) IN
                IF close = 0 THEN SyntaxError("invalid escape sequence")
                ELSE LET hex_str == SubSeq(src, p + 3, close - 1) IN
                     IF ~IsHexNumeral(hex_str)
                     THEN Raised("ValueError", "invalid literal for int()")
                     ELSE IF NumberOf(hex_str, 16) >= 1114112
                     THEN Raised("ValueError", "chr() arg not in range")
                     ELSE Escaped(close + 1,
                                  <<"chr", NumberOf(hex_str, 16)>>)
      [] esc \in DecDigits ->
           LET n == DigitRun(src, p + 1)
               val == NumberOf(SubSeq(src, p + 1, p + n), 10)
           IN IF val > 255 THEN SyntaxError("decimal escape too large")
              ELSE Escaped(p + 1 + n, <<"chr", val>>)
      [] OTHER -> SyntaxError("invalid escape sequence")

\* the sources: a body of at most MaxSrc characters and the closing quote
InitLexer ==
    /\ CtlIdle /\ TblIdle /\ BrIdle /\ SesInit
    /\ lpc = "lexing"
    /\ \E n \in 0..MaxSrc : \E body \in [1..n -> SrcChars] :
          largs = body \o <<Quote>>
    /\ lcallee = [pos |-> 1, buf |-> <<>>]
    /\ lres = NoOutcome

\* buf.append(self._advance())
LxPlain ==
    /\ lpc = "lexing"
    /\ lcallee.pos <= Len(largs)
    /\ largs[lcallee.pos] \notin {Quote, Backslash}
    /\ lcallee' = [pos |-> lcallee.pos + 1,
                   buf |-> Append(lcallee.buf, largs[lcallee.pos])]
    /\ UNCHANGED <<ctl, tblVars, brVars, sesVars, lpc, largs, lres>>

\* a backslash: the escape is read, or the lexer raises
LxEscape ==
    /\ lpc = "lexing"
    /\ lcallee.pos <= Len(largs)
    /\ largs[lcallee.pos] = Backslash
    /\ LET e == Escape(largs, lcallee.pos) IN
       IF e.kind = "ok"
       THEN /\ lcallee' = [pos |-> e.pos, buf |-> Append(lcallee.buf, e.piece)]
            /\ UNCHANGED <<lpc, lres>>
       ELSE /\ lres' = e
            /\ lpc' = "done"
            /\ UNCHANGED lcallee
    /\ UNCHANGED <<ctl, tblVars, brVars, sesVars, largs>>

\* the closing quote: the token is complete, the statement parses
LxClose ==
    /\ lpc = "lexing"
    /\ lcallee.pos <= Len(largs)
    /\ largs[lcallee.pos] = Quote
    /\ lres' = Returned(<<<<"Block">>>>)
    /\ lpc' = "done"
    /\ UNCHANGED <<ctl, tblVars, brVars, sesVars, largs, lcallee>>

\* the source ends inside the literal
LxUnfinished ==
    /\ lpc = "lexing"
    /\ lcallee.pos > Len(largs)
    /\ lres' = SyntaxError("unfinished string")
    /\ lpc' = "done"
    /\ UNCHANGED <<ctl, tblVars, brVars, sesVars, largs, lcallee>>

NextLexer == LxPlain \/ LxEscape \/ LxClose \/ LxUnfinished

SpecLexer == InitLexer /\ [][NextLexer]_vars

(***************************************************************************)
(* SpecNewindex: a script builds a table with rawset and setmetatable,     *)
(* its metatable with or without a __newindex field, a function or a       *)
(* second table u (held inside the metatable, with a metatable of its      *)
(* own), and then makes one assignment t[k] = v.  lcallee is the list of   *)
(* metamethod calls the assignment made, lres how it ended.                *)
(***************************************************************************)
OtherTable == <<"ref", "u">>

BuildKeys == {IntV(1), IntV(2), StrV("a")}
AssignKeys == BuildKeys \cup {BoolV(TRUE)}
AssignValues == {Nil, StrV("v"), StrV("w")}

\* { __newindex = h }
NewindexBy(h) == rawset(EmptyTable, StrV("__newindex"), h)

\* the tables u a script can have made before it is used as __newindex
OtherTables ==
    {EmptyTable,
     rawset(EmptyTable, StrV("a"), StrV("v")),
     [EmptyTable EXCEPT !.metatable = <<"table", NewindexBy(Fn("mm2"))>>]}

\* the metatables given to t
NewindexMetatables ==
    {Nil, <<"table", EmptyTable>>, <<"table", NewindexBy(Fn("mm"))>>,
     <<"table", NewindexBy(IntV(5))>>}
    \cup {<<"table", NewindexBy(<<"table", u>>)>> : u \in OtherTables}

\* self._get_metamethod(obj, "__newindex") for a table
NewindexOf(t) ==
    IF t.metatable = Nil THEN Nil
    ELSE rawget(t.metatable[2], StrV("__newindex"))

\* Interpreter._table_set on the table t, known to the script as self: the
\* table left, the metamethod calls made and how the assignment ended
RECURSIVE table_set(_, _, _, _)
table_set(t, self, key, value) ==
    LET mm == NewindexOf(t) IN
    IF rawget(t, key) # Nil \/ mm = Nil
    THEN [t |-> rawset(t, key, value), calls |-> <<>>,
          out |-> Returned(<<>>)]
    ELSE IF mm[1] = "table"
    THEN LET r == table_set(mm[2], OtherTable, key, value)
             mt == t.metatable[2]
         IN [t |-> [t EXCEPT !.metatable =
                       <<"table",
                         [mt EXCEPT !.data =
                             StoreAt(@, StrV("__newindex"),
                                     <<"table", r.t>>)]>>],
             calls |-> r.calls, out |-> r.out]
    ELSE IF IsCallable(mm)
    THEN [t |-> t, calls |-> <<[fn |-> mm, args |-> <<self, key, value>>]>>,
          out |-> Returned(<<>>)]
    ELSE [t |-> t, calls |-> <<>>, out |-> NotCallable(mm)]

InitNewindex == CtlIdle /\ TblIdle /\ BrIdle /\ SesInit /\ LibIdle

\* rawset(t, k, v)
NiRawset ==
    \E k \in BuildKeys, v \in AssignValues :
        /\ lpc = "idle"
        /\ tbl' = rawset(tbl, k, v)
        /\ conv' = NoResult
        /\ UNCHANGED <<ctl, brVars, sesVars, libVars>>

\* setmetatable(t, mt)
NiSetmetatable ==
    \E mt \in NewindexMetatables :
        /\ lpc = "idle"
        /\ tbl' = setmetatable(tbl, mt).t
        /\ conv' = NoResult
        /\ UNCHANGED <<ctl, brVars, sesVars, libVars>>

\* t[k] = v
NiAssign ==
    \E k \in AssignKeys, v \in AssignValues :
        LET r == table_set(tbl, TheTable, k, v) IN
        /\ lpc = "idle"
        /\ lpc' = "assigned"
        /\ tbl' = r.t
        /\ conv' = <<"assign", k, v>>
        /\ lcallee' = r.calls
        /\ lres' = r.out
        /\ UNCHANGED <<ctl, brVars, sesVars, largs>>

NextNewindex == NiRawset \/ NiSetmetatable \/ NiAssign

SpecNewindex == InitNewindex /\ [][NextNewindex]_vars

(***************************************************************************)
(* SpecEquality: a == b and a ~= b evaluated for two values.  largs are    *)
(* the operands, conv the operator and its result.                         *)
(***************************************************************************)
EqValues ==
    {Nil, BoolV(TRUE), BoolV(FALSE), IntV(0), IntV(1), <<"float", 1, 0>>,
     <<"float", 1, 5>>, StrV("1"), TheTable, OtherTable, Fn("f")}

\* isinstance(v, (int, float)): a bool is an int
IsPyNumber(v) == v[1] \in {"int", "bool", "float"}

\* float(v) for a Python number, in tenths
FloatOf(v) == IF v[1] = "float" THEN 10 * v[2] + v[3] ELSE 10 * IntOf(v)

\* Interpreter._raw_equal; tables are equal when they are the same object
raw_equal(a, b) ==
    IF a = Nil /\ b = Nil THEN TRUE
    ELSE IF a = Nil \/ b = Nil THEN FALSE
    ELSE IF IsPyNumber(a) /\ IsPyNumber(b) THEN FloatOf(a) = FloatOf(b)
    ELSE a = b

\* Interpreter._eval_equality, for tables with no __eq metamethod
eval_equality(op, left, right) ==
    LET result == raw_equal(left, right) IN
    IF op = "==" THEN result ELSE ~result

InitEquality ==
    /\ CtlIdle /\ TblIdle /\ BrIdle /\ SesInit
    /\ lpc = "start"
    /\ largs \in [1..2 -> EqValues]
    /\ lcallee = NoCallee
    /\ lres = NoOutcome

\* a == b, a ~= b
EqEval ==
    \E op \in {"==", "~="} :
        /\ lpc \in {"start", "done"}
        /\ lpc' = "done"
        /\ conv' = <<op, eval_equality(op, largs[1], largs[2])>>
        /\ UNCHANGED <<ctl, brVars, sesVars, tbl, largs, lcallee, lres>>

NextEquality == EqEval

SpecEquality == InitEquality /\ [][NextEquality]_vars

(***************************************************************************)
(* SpecBitwise: the bitwise operators on two integers.  The language's     *)
(* integers are WordBits wide here; the evaluator computes on Python       *)
(* integers, which have no width.  largs are the operands, lres the        *)
(* result or the exception.                                                *)
(***************************************************************************)
RECURSIVE Pow2(_)
Pow2(n) == IF n = 0 THEN 1 ELSE 2 * Pow2(n - 1)

MinInteger == 0 - Pow2(WordBits - 1)
MaxInteger == Pow2(WordBits - 1) - 1
Integers64 == MinInteger..MaxInteger

BinaryBitOps == {"&", "|", "~", "<<", ">>"}

\* one bit position of a two-operand bit operation
BitOf(op, x, y) ==
    CASE op = "&" -> x * y
      [] op = "|" -> IF x + y > 0 THEN 1 ELSE 0
      [] op = "~" -> IF x # y THEN 1 ELSE 0

\* operator.and_, operator.or_, operator.xor on Python integers (two's
\* complement with the sign extended without end)
RECURSIVE PyBits(_, _, _)
PyBits(op, a, b) ==
    IF a \in {0, -1} /\ b \in {0, -1}
    THEN 0 - BitOf(op, 0 - a, 0 - b)
    ELSE BitOf(op, a % 2, b % 2) + 2 * PyBits(op, a \div 2, b \div 2)

\* op_func(ia, ib) as _eval_binop passes it to _bitwise
op_func(op, a, b) ==
    CASE op \in {"&", "|", "~"} -> Returned(<<IntV(PyBits(op, a, b))>>)
      [] op = "<<" ->
           IF b < 0 THEN Raised("ValueError", "negative shift count")
           ELSE Returned(<<IntV(a * Pow2(b))>>)
      [] op = ">>" ->
           IF b < 0 THEN Raised("ValueError", "negative shift count")
           ELSE Returned(<<IntV(a \div Pow2(b))>>)

\* Interpreter._bitwise, both operands integers
bitwise(op, left, right) == op_func(op, IntOf(left), IntOf(right))

\* Interpreter._eval_unaryop, op "~" on an integer: ~iv
bnot(val) == Returned(<<IntV(0 - IntOf(val) - 1)>>)

InitBitwise ==
    /\ CtlIdle /\ TblIdle /\ BrIdle /\ SesInit
    /\ lpc = "start"
    /\ largs \in [1..2 -> {IntV(n) : n \in Integers64}]
    /\ lcallee = NoCallee
    /\ lres = NoOutcome

\* a op b
BwBinary ==
    \E op \in BinaryBitOps :
        /\ lpc \in {"start", "done"}
        /\ lpc' = "done"
        /\ conv' = <<"binary", op>>
        /\ lres' = bitwise(op, largs[1], largs[2])
        /\ UNCHANGED <<ctl, brVars, sesVars, tbl, largs, lcallee>>

\* ~a
BwUnary ==
    /\ lpc \in {"start", "done"}
    /\ lpc' = "done"
    /\ conv' = <<"unary", "~">>
    /\ lres' = bnot(largs[1])
    /\ UNCHANGED <<ctl, brVars, sesVars, tbl, largs, lcallee>>

NextBitwise == BwBinary \/ BwUnary

SpecBitwise == InitBitwise /\ [][NextBitwise]_vars

(***************************************************************************)
(* SpecScope: local declarations, blocks and one closure.  The heap of     *)
(* Environment objects is lcallee.envs, the scope of the statement being   *)
(* executed is lcallee.cur, the closure is largs.                          *)
(***************************************************************************)
ScopeValues == {IntV(i) : i \in 1..MaxVal}

\* Environment.__init__
Environment(parent) == [vars |-> EmptyEnv, parent |-> parent]

NoClosure == [env |-> 0, n |-> "x", saw |-> Nil]

\* Environment.get_local along the parent chain: <<value, found>>
RECURSIVE chain_get_local(_, _, _)
chain_get_local(envs, e, n) ==
    IF envs[e].vars[n] # Unbound THEN <<envs[e].vars[n], TRUE>>
    ELSE IF envs[e].parent # 0 THEN chain_get_local(envs, envs[e].parent, n)
    ELSE <<Nil, FALSE>>

\* Interpreter._get_var
chain_get_var(envs, e, n) ==
    LET r == chain_get_local(envs, e, n) IN
    IF r[2] THEN r[1]
    ELSE LET gval == rawget(globals, StrV(n)) IN
         IF gval # Nil THEN gval ELSE Nil

\* Interpreter._exec_local for `local n = v`: env.define(name, val)
exec_local(envs, e, n, v) ==
    [envs EXCEPT ![e].vars = define(envs[e].vars, n, v)]

\* LuaSession.__init__: self._env = Environment(); the first execute runs
\* its chunk in it
InitScope ==
    /\ CtlIdle /\ TblIdle /\ BrIdle /\ SesInit
    /\ lpc = "idle"
    /\ largs = NoClosure
    /\ lcallee = [envs |-> <<Environment(0)>>, cur |-> 1, later |-> FALSE]
    /\ lres = NoOutcome

\* `local n = v` in the current block
ScLocal ==
    \E n \in Names, v \in ScopeValues :
        /\ lcallee' = [lcallee EXCEPT
                          !.envs = exec_local(lcallee.envs, lcallee.cur, n, v)]
        /\ UNCHANGED <<ctl, tblVars, brVars, sesVars, lpc, largs, lres>>

\* `do`: Interpreter._exec_stmt runs the body in Environment(env)
ScDo ==
    /\ Len(lcallee.envs) < MaxEnvs
    /\ lcallee' = [lcallee EXCEPT
                      !.envs = Append(lcallee.envs, Environment(lcallee.cur)),
                      !.cur = Len(lcallee.envs) + 1]
    /\ UNCHANGED <<ctl, tblVars, brVars, sesVars, lpc, largs, lres>>

\* `end` of a do block: the statements after it run in the enclosing scope
ScEnd ==
    /\ lcallee.envs[lcallee.cur].parent # 0
    /\ lcallee' = [lcallee EXCEPT !.cur = lcallee.envs[lcallee.cur].parent]
    /\ UNCHANGED <<ctl, tblVars, brVars, sesVars, lpc, largs, lres>>

\* the chunk ends and a later LuaSession.execute runs its chunk in the
\* same self._env
ScExecute ==
    /\ lcallee.cur = 1
    /\ ~lcallee.later
    /\ lcallee' = [lcallee EXCEPT !.later = TRUE]
    /\ UNCHANGED <<ctl, tblVars, brVars, sesVars, lpc, largs, lres>>

\* `f = function() return n end`: Interpreter._eval_funcbody keeps env
ScFunction ==
    /\ lpc = "idle"
    /\ \E n \in Names :
         largs' = [env |-> lcallee.cur, n |-> n,
                   saw |-> chain_get_var(lcallee.envs, lcallee.cur, n)]
    /\ lpc' = "closed"
    /\ UNCHANGED <<ctl, tblVars, brVars, sesVars, lcallee, lres>>

\* `f()`: Interpreter._call_lua_function runs the body in
\* Environment(func.closure), which binds nothing
ScCall ==
    /\ lpc \in {"closed", "called"}
    /\ lres' = Returned(<<chain_get_var(lcallee.envs, largs.env, largs.n)>>)
    /\ lpc' = "called"
    /\ UNCHANGED <<ctl, tblVars, brVars, sesVars, lcallee, largs>>

NextScope == ScLocal \/ ScDo \/ ScEnd \/ ScExecute \/ ScFunction \/ ScCall

SpecScope == InitScope /\ [][NextScope]_vars

(***************************************************************************)
(* SpecHost: the control machine with xpcall, and with the host calling a  *)
(* script function it obtained from get or eval.  lpc is "defined" once    *)
(* the script has created a function.  print, which touches neither       *)
(* counter, is left out.                                                   *)
(***************************************************************************)
InitHost ==
    /\ Init
    /\ max_instructions = MaxInstructions
    /\ max_call_depth = MaxCallDepth
    /\ max_output_bytes = MaxOutputBytes

\* install_stdlib._xpcall enters its try
CallXpcall ==
    /\ CanCall
    /\ IF StackExhausted
       THEN /\ exc' = "RecursionError"
            /\ stack' = stack
       ELSE /\ stack' = Append(stack, Frame("xpcall", "call"))
            /\ exc' = exc
    /\ UNCHANGED <<aux, Budgets, instructions, call_depth, output, output_bytes,
                   phase, call, outcome, begun>>

\* xpcall returns after its call, or after its handler
XpcallReturn ==
    /\ Running
    /\ Top.k = "xpcall"
    /\ Top.s = "done"
    /\ stack' = Resume(Pop(stack))
    /\ UNCHANGED <<aux, Budgets, instructions, call_depth, output, output_bytes,
                   exc, phase, call, outcome, begun>>

\* Interpreter._eval_funcbody: the script creates a function
DefineFunction ==
    /\ CanCall
    /\ lpc' = "defined"
    /\ UNCHANGED <<ctl, tblVars, brVars, sesVars, largs, lcallee, lres>>

HostCallResets ==
    /\ phase = "idle"
    /\ lpc = "defined"
    /\ call' = "host"
    /\ begun' = 0
    /\ instructions' = 0
    /\ IF DepthExceeded(call_depth + 1)
       THEN /\ outcome' = "overflow"
            /\ UNCHANGED <<stack, call_depth, phase>>
       ELSE /\ stack' = <<Frame("host", "call"), Frame("fn", "blk")>>
            /\ call_depth' = call_depth + 1
            /\ phase' = "running"
            /\ outcome' = "none"
    /\ UNCHANGED <<aux, Budgets, output, output_bytes, exc>>

\* the wrapper of LuaSession._function_to_python, called by the host:
\* interp._call_function(func, lua_args) with no reset before it
HostCall ==
    /\ phase = "idle"
    /\ lpc = "defined"
    /\ call' = "host"
    /\ begun' = 0
    /\ IF DepthExceeded(call_depth + 1)
       THEN /\ outcome' = "overflow"
            /\ UNCHANGED <<stack, call_depth, phase>>
       ELSE /\ stack' = <<Frame("host", "call"), Frame("fn", "blk")>>
            /\ call_depth' = call_depth + 1
            /\ phase' = "running"
            /\ outcome' = "none"
    /\ UNCHANGED <<aux, Budgets, instructions, output, output_bytes, exc>>

\* the wrapper returns the results to the host
HostReturn ==
    /\ Running
    /\ Top.k = "host"
    /\ Top.s = "done"
    /\ stack' = <<>>
    /\ phase' = "idle"
    /\ outcome' = "ok"
    /\ UNCHANGED <<aux, Budgets, instructions, call_depth, output, output_bytes,
                   exc, call, begun>>

NextHost ==
    \/ Execute
    \/ Eval
    \/ Parse
    \/ ExecStmt
    \/ EndStmt
    \/ RaiseReturn
    \/ EndBlock
    \/ LoopTick
    \/ LoopBody
    \/ LoopExit
    \/ CallLuaFunction
    \/ CallError
    \/ CallPcall
    \/ CallXpcall
    \/ MetaStep
    \/ Return
    \/ XpcallReturn
    \/ DefineFunction
    \/ HostCall
    \/ HostReturn
    \/ Unwind

SpecHost == InitHost /\ [][NextHost]_vars

(***************************************************************************)
(* SpecSyntax: execute and eval of a source that ends in a string          *)
(* literal.  execute is given `x = v; do local s = "<body>" end`, eval is  *)
(* given `"<body>"`; the lexer reads the literal with the steps of         *)
(* SpecLexer, inside the call.  conv is the call's kind and v.             *)
(***************************************************************************)
InitSyntax ==
    /\ Init
    /\ max_instructions = MaxInstructions
    /\ max_call_depth = MaxCallDepth
    /\ max_output_bytes = MaxOutputBytes

SyntaxValues == {Nil, IntV(1)}

\* the lexer is gone when the call ends
LexerGone ==
    /\ lpc' = "idle"
    /\ largs' = <<>>
    /\ lcallee' = NoCallee
    /\ lres' = NoOutcome

\* LuaSession.execute / _eval_with_return: the resets, then Parser(code)
SyCall ==
    /\ phase = "idle"
    /\ \E kind \in ChunkKinds, v \in SyntaxValues :
         /\ kind = "eval" => v = Nil
         /\ call' = kind
         /\ conv' = <<kind, v>>
         /\ IF kind = "execute"
            THEN output' = <<>> /\ output_bytes' = 0
            ELSE UNCHANGED <<output, output_bytes>>
    /\ instructions' = 0
    /\ begun' = 0
    /\ phase' = "parsing"
    /\ outcome' = "none"
    /\ lpc' = "lexing"
    /\ \E n \in 0..MaxSrc : \E body \in [1..n -> SrcChars] :
          largs' = body \o <<Quote>>
    /\ lcallee' = [pos |-> 1, buf |-> <<>>]
    /\ lres' = NoOutcome
    /\ UNCHANGED <<Budgets, call_depth, stack, exc, tbl, brVars, sesVars>>

\* the statements and loop iterations of the chunk, in order
ChunkTicks(kind) == IF kind = "execute" THEN 3 ELSE 1

\* the tick the chunk stops at: the first past the budget, or its last
StopsAt(kind) ==
    LET Past == {n \in 1..ChunkTicks(kind) : QuotaExceeded(n)} IN
    IF Past = {} THEN ChunkTicks(kind)
    ELSE CHOOSE n \in Past : \A m \in Past : n <= m

\* parse() returned a Block: Interpreter.execute runs it
SyRun ==
    /\ phase = "parsing"
    /\ lpc = "done"
    /\ lres.kind = "return"
    /\ instructions' = StopsAt(conv[1])
    /\ begun' = IF QuotaExceeded(instructions') THEN instructions' - 1
                ELSE instructions'
    /\ outcome' = IF QuotaExceeded(instructions') THEN "quota" ELSE "ok"
    /\ phase' = "idle"
    /\ IF conv[1] = "execute" /\ ~QuotaExceeded(1)
       THEN LET r == set_existing(senv, "x", conv[2]) IN
            /\ senv' = r[1]
            /\ globals' = IF r[2] THEN globals
                          ELSE rawset(globals, StrV("x"), conv[2])
       ELSE UNCHANGED <<globals, senv>>
    /\ LexerGone
    /\ UNCHANGED <<Budgets, call_depth, output, output_bytes, stack, exc, call,
                   tblVars, brVars, got, wrote>>

\* parse() raised: the exception leaves execute / eval as it is
SyRaise ==
    /\ phase = "parsing"
    /\ lpc = "done"
    /\ lres.kind = "raise"
    /\ phase' = "idle"
    /\ outcome' = lres.class
    /\ LexerGone
    /\ UNCHANGED <<Budgets, instructions, call_depth, output, output_bytes,
                   stack, exc, call, begun, tblVars, brVars, sesVars>>

NextSyntax ==
    SyCall \/ LxPlain \/ LxEscape \/ LxClose \/ LxUnfinished \/ SyRun \/ SyRaise

SpecSyntax == InitSyntax /\ [][NextSyntax]_vars

(***************************************************************************)
(* The claims.                                                             *)
(***************************************************************************)
NoPcall == \A i \in 1..Len(stack) : stack[i].k # "pcall"
TypedOutcomes == {"ok", "LuaSyntaxError"} \cup RuntimeErrors

\* C1: every statement and every loop iteration increments the instruction
\* counter when it starts; the increment that takes the counter past
\* max_instructions raises 'execution quota exceeded' and no other increment
\* does; so at most max_instructions statements and iterations begin in one
\* call, and a quota error raised outside any pcall only propagates until
\* the host receives it.
C1_TickQuota ==
    /\ [](begun <= max_instructions)
    /\ [][(ExecStmt \/ LoopTick) =>
            /\ instructions' = instructions + 1
            /\ (instructions' > max_instructions) <=> (exc' = "quota")
            /\ (exc' = "quota") => (stack' = stack /\ begun' = begun)]_vars
    /\ [][(exc = "quota" /\ NoPcall) =>
            \/ exc' = "quota"
            \/ phase' = "idle" /\ outcome' = "quota"
                 /\ Message(outcome') = "execution quota exceeded"]_vars

\* C1 witness: the host received the quota error of a loop iteration after
\* exactly max_instructions statements and iterations had begun.
C1_Witness ==
    /\ phase = "idle"
    /\ outcome = "quota"
    /\ begun = max_instructions
    /\ instructions = max_instructions + 1
    /\ max_instructions = MaxInstructions

\* C2: a top-level call ends in a normal return or in a typed error
\* (LuaSyntaxError or LuaRuntimeError); in particular a metamethod chain is
\* cut off by a budget error.  (Control signals that reach the host are the
\* matter of C6 and are left aside here.)
C2_ReturnsOrTypedError ==
    phase = "idle" =>
        outcome \in {"none"} \cup TypedOutcomes \cup ControlSignals

\* C3: when a top-level execute or eval starts (its resets done, the source
\* not yet parsed), the instruction counter and the output byte count are
\* both zero.
C3_BudgetsReset ==
    phase = "parsing" => (instructions = 0 /\ output_bytes = 0)

\* C4: the user-function calls in progress never exceed max_call_depth; a
\* call is rejected by the depth check with 'stack overflow', its body not
\* entered, exactly when max_call_depth user calls are already in progress;
\* builtin calls leave the depth counter alone.
C4_CallDepth ==
    /\ [](ActiveCalls(stack) <= max_call_depth)
    /\ [][CallLuaFunction =>
            /\ (ActiveCalls(stack) = max_call_depth) <=> (exc' = "overflow")
            /\ (exc' = "overflow") =>
                 /\ stack' = stack
                 /\ Message(exc') = "stack overflow"]_vars
    /\ [][(CallPrint \/ CallPcall \/ CallError \/ MetaStep \/ Return) =>
            (call_depth' = call_depth
               /\ ActiveCalls(stack') = ActiveCalls(stack))]_vars

\* C4 witness: the depth check has rejected a call made with max_call_depth
\* user calls in progress.
C4_Witness ==
    /\ exc = "overflow"
    /\ ActiveCalls(stack) = max_call_depth
    /\ call_depth = max_call_depth
    /\ max_call_depth >= 2

\* C5: during an execute call the records held in the output, each counted
\* with its newline, never sum to more than max_output_bytes; a print that
\* would take the sum past the limit fails with 'output limit exceeded' and
\* appends nothing; a print that succeeds appends exactly its one record.
C5_OutputBudget ==
    /\ [](call = "execute" => SumRecords(output) <= max_output_bytes)
    /\ [][\A n \in 0..MaxLine : (call = "execute" /\ PrintLine(n)) =>
            IF SumRecords(output) + n + 1 > max_output_bytes
            THEN /\ exc' = "outlimit"
                 /\ output' = output
                 /\ Message(exc') = "output limit exceeded"
            ELSE exc' = "none" => output' = Append(output, n)]_vars
    /\ [][(call = "execute" /\ phase = "running" /\ output' # output) =>
            /\ Len(output') = Len(output) + 1
            /\ SubSeq(output', 1, Len(output)) = output
            /\ exc' = "none"]_vars

\* C5 witness: in an execute call holding a record, a print was refused for
\* the output limit.
C5_Witness ==
    /\ call = "execute"
    /\ exc = "outlimit"
    /\ output # <<>>
    /\ SumRecords(output) <= max_output_bytes
    /\ output_bytes > max_output_bytes

\* C6: the host never receives a ReturnSignal or a BreakSignal from execute
\* or eval.
C6_NoControlSignalToHost ==
    phase = "idle" => outcome \notin ControlSignals

(***************************************************************************)
(* Session variables (SpecSession)                                         *)
(***************************************************************************)
\* C7: once a name has been written by session.set or by an assignment
\* that execute ran (at the top of a chunk or in a function), session.get
\* and every script read of that name, from execute, eval or a function,
\* yield the value of the most recent of those writes.
C7_MostRecentWrite ==
    (got.by # "none" /\ wrote[got.n] # NoWrite) => got.v = wrote[got.n][2]

\* eval reads the value a function assigned after the host had set another,
\* the globals table still holding the host's
C7_Witness ==
    /\ got.by = "eval"
    /\ got.v = IntV(2)
    /\ wrote[got.n] = <<"fn", IntV(2)>>
    /\ rawget(globals, StrV(got.n)) = IntV(1)

\* no call has been made on the session since its construction
Fresh == got.by = "none" /\ \A n \in Names : wrote[n] = NoWrite

ExpectedGlobals ==
    {"print", "type", "tostring", "tonumber", "assert", "error", "pcall",
     "xpcall", "ipairs", "pairs", "next", "select", "rawget", "rawset",
     "rawlen", "rawequal", "setmetatable", "getmetatable", "unpack",
     "_VERSION", "string", "table", "math", "os"}

AbsentGlobals ==
    {"io", "load", "loadstring", "dofile", "loadfile", "require", "package",
     "debug", "coroutine"}

\* C10: right after construction the names bound in the globals table are
\* exactly the 24 listed ones; io, load, loadstring, dofile, loadfile,
\* require, package, debug and coroutine are unbound; the os table holds
\* only clock, time and difftime.
C10_ExactGlobals ==
    Fresh =>
        /\ Keys(globals) = {StrV(n) : n \in ExpectedGlobals}
        /\ \A n \in AbsentGlobals : rawget(globals, StrV(n)) = Nil
        /\ rawget(globals, StrV("os")) = Lib("os")
        /\ Keys(LibTable("os"))
             = {StrV("clock"), StrV("time"), StrV("difftime")}

(***************************************************************************)
(* The bridge (SpecBridge)                                                 *)
(***************************************************************************)
\* host values the bridge hands back unchanged: no list is empty or holds
\* None, no dict has None as a key or a value, and no dict with entries
\* has the keys 1..n (as Python compares keys, True being 1)
RECURSIVE Faithful(_)
Faithful(v) ==
    CASE v[1] = "list" ->
             /\ Len(v[2]) > 0
             /\ \A i \in 1..Len(v[2]) : v[2][i] # Nil /\ Faithful(v[2][i])
      [] v[1] = "dict" ->
             /\ \A i \in 1..Len(v[2]) :
                    /\ v[2][i][1] # Nil
                    /\ v[2][i][2] # Nil
                    /\ Faithful(v[2][i][2])
             /\ \/ Len(v[2]) = 0
                \/ {PyKey(v[2][i][1]) : i \in 1..Len(v[2])}
                     # {IntV(i) : i \in 1..Len(v[2])}
      [] OTHER -> TRUE

IsSequenceTable(t) == Keys(t) = {IntV(i) : i \in 1..Len(t.data)}

\* C9: a table converts to an ordered sequence exactly when its key set is
\* {1..n}, n its number of entries, for every n >= 0, element i being the
\* conversion of t[i]; in every other case it converts to an associative
\* object holding the same keys and the converted values.
C9_SequenceExactly ==
    conv[1] = "py" =>
        LET r == conv[2]
            n == Len(tbl.data)
        IN /\ (r[1] = "list") <=> IsSequenceTable(tbl)
           /\ r[1] = "list" =>
                /\ Len(r[2]) = n
                /\ \A i \in 1..n : r[2][i] = ToPython(rawget(tbl, IntV(i)))
           /\ r[1] = "dict" =>
                r[2] = [i \in 1..n |->
                          <<tbl.data[i][1], ToPython(tbl.data[i][2])>>]

(***************************************************************************)
(* pcall (SpecPcall)                                                       *)
(***************************************************************************)
\* C11: pcall(f, a1, ..., an) calls f with a1..an; when the call completes
\* pcall returns true followed by all of f's results in order; when the
\* call raises a runtime error pcall returns exactly the two values false
\* and the message, and the script goes on with the next statement.
C11_Pcall ==
    /\ lcallee.entered => lcallee.recv = Tail(largs)
    /\ lcallee.did.kind = "return" =>
          /\ lpc = "next"
          /\ lres = Returned(<<BoolV(TRUE)>> \o lcallee.did.vals)
    /\ (lcallee.did.kind = "raise"
        /\ lcallee.did.class = "LuaRuntimeError") =>
          /\ lpc = "next"
          /\ lres = Returned(<<BoolV(FALSE), StrV(lcallee.did.msg)>>)
    /\ (lpc = "next" /\ ~lcallee.entered) =>
          /\ lres.kind = "return"
          /\ Len(lres.vals) = 2
          /\ lres.vals[1] = BoolV(FALSE)

\* f got two arguments and raised; pcall returned false and the message
C11_Witness ==
    /\ lpc = "next"
    /\ lcallee.recv = <<IntV(1), StrV("a")>>
    /\ lcallee.did = Raised("LuaRuntimeError", "boom")
    /\ lres.vals = <<BoolV(FALSE), StrV("boom")>>

(***************************************************************************)
(* Expression lists (SpecExplist)                                          *)
(***************************************************************************)
\* the one value an expression stands for
SingleValue(e) ==
    LET x == IF e[1] = "paren" THEN e[2] ELSE e IN
    IF x[1] = "call" THEN (IF x[2] = <<>> THEN Nil ELSE x[2][1]) ELSE x[2]

\* C12: a parenthesised call (f()) in the last position of an argument
\* list, a return list, the right-hand side of an assignment or a table
\* constructor contributes exactly one value, the first result of f or nil
\* when f returns nothing, never all of f's results.
C12_ParenSingle ==
    LET exps == largs.exps
        last == exps[Len(exps)]
    IN (lpc = "next" /\ last[1] = "paren" /\ last[2][1] = "call") =>
          lres.vals = Contribution(largs.ctx,
                         [i \in 1..Len(exps) |-> SingleValue(exps[i])])

(***************************************************************************)
(* Raw access (SpecTable)                                                  *)
(***************************************************************************)
\* C13: after any sequence of rawsets, rawget(t, k) is the value of the
\* most recent rawset on k (nil if that was nil or k was never set), no
\* stored entry has a nil value, and a rawset on k leaves rawget(t, k')
\* unchanged for every different key k', where true, 1 and "1" are
\* different keys and the float 1.0 is the key 1.  Stated step by step:
\* every rawset(t, k, v) makes rawget(t, k) = v and changes no other key.
C13_RawsetRawget ==
    /\ [](\A i \in 1..Len(tbl.data) : tbl.data[i][2] # Nil)
    /\ [](tbl = EmptyTable => \A k \in TableKeys : rawget(tbl, k) = Nil)
    /\ [][\A k \in TableKeys, v \in TableValues \cup {Nil} :
            (tbl' = rawset(tbl, k, v) /\ conv' = NoResult) =>
               /\ rawget(tbl', k) = v
               /\ \A k2 \in TableKeys :
                     LuaKey(k2) # LuaKey(k) =>
                        rawget(tbl', k2) = rawget(tbl, k2)]_vars


(***************************************************************************)
(* Sequence length (SpecTable)                                             *)
(***************************************************************************)
\* C14: after any sequence of rawsets (inserts, overwrites, deletions, with
\* holes), the length operation returns an integer n >= 0 such that key n+1
\* is absent and either n = 0 or key n is present.
C14_Length ==
    conv[1] = "len" =>
        LET r == conv[2] IN
        /\ r[1] = "int"
        /\ r[2] >= 0
        /\ rawget(tbl, IntV(r[2] + 1)) = Nil
        /\ (r[2] = 0 \/ rawget(tbl, IntV(r[2])) # Nil)

(***************************************************************************)
(* Traversal with next (SpecNext)                                          *)
(***************************************************************************)
\* the keys of t as the language tells them apart
PresentKeys(t) == {LuaKey(x) : x \in Keys(t)}

\* C15: a walk from next(t, nil) that passes each returned key back returns
\* every present key exactly once, in insertion order, each with its
\* current value, and then nil; overwriting the value of a present key
\* during the walk changes neither the keys visited nor their order; and
\* next(t, k) for a key k that is not present fails with a runtime error.
C15_NextTraversal ==
    /\ (lpc = "done" /\ lres.intact) =>
          /\ lres.seen = KeyList(tbl.data)
          /\ \A i, j \in 1..Len(lres.seen) :
                i # j => LuaKey(lres.seen[i]) # LuaKey(lres.seen[j])
    /\ lpc = "failed" => ~lres.intact
    /\ (conv[1] = "next" /\ conv[3].kind = "return"
           /\ conv[3].vals[1] # Nil) =>
          /\ conv[3].vals[2] = rawget(tbl, conv[3].vals[1])
          /\ conv[3].vals[2] # Nil
    /\ (conv[1] = "next" /\ conv[2] # Nil
           /\ LuaKey(conv[2]) \notin PresentKeys(tbl)) =>
          /\ conv[3].kind = "raise"
          /\ conv[3].class = "LuaRuntimeError"

(***************************************************************************)
(* ipairs (SpecIpairs)                                                     *)
(***************************************************************************)
\* C16: the iterator returned by ipairs(t) depends only on its arguments:
\* every call iter(t, i) returns (i+1, t[i+1]) when t[i+1] is not nil and
\* nil otherwise, whatever calls of iter came before; and the third value
\* ipairs returns is 0.
C16_IpairsStateless ==
    /\ lpc = "iter" => lres.vals[3] = IntV(0)
    /\ conv[1] = "iter" =>
          LET a == conv[2]
              val == rawget(tbl, IntV(a + 1))
          IN conv[3] = IF val = Nil THEN Returned(<<Nil>>)
                       ELSE Returned(<<IntV(a + 1), val>>)

(***************************************************************************)
(* pairs and metatables (SpecMeta)                                         *)
(***************************************************************************)
\* C17: pairs(t) for a table t whose metatable has a __pairs field calls
\* that metamethod with t and returns its results; only with no __pairs
\* metamethod does it return (next, t, nil).
C17_PairsMetamethod ==
    (conv[1] = "pairs" /\ conv[2] = TheTable) =>
        LET mm == IF tbl.metatable = Nil THEN Nil
                  ELSE rawget(tbl.metatable[2], StrV("__pairs"))
        IN IF mm # Nil
           THEN /\ lcallee.entered
                /\ lcallee.recv = <<TheTable>>
                /\ conv[3] = lcallee.did
           ELSE /\ ~lcallee.entered
                /\ conv[3] = Returned(<<Builtin("next"), TheTable, Nil>>)

\* the table's current metatable has a non-nil __metatable field
Protected(t) == Protection(t) # Nil

ProtectedError ==
    Raised("LuaRuntimeError", "cannot change a protected metatable")

\* C18 as stated: while the table's current metatable has a non-nil
\* __metatable field, every setmetatable call on the table fails with
\* 'cannot change a protected metatable' and leaves the metatable
\* unchanged, and getmetatable returns the value of the __metatable field.
C18_ProtectedMetatable ==
    /\ [][(conv'[1] = "setmetatable" /\ Protected(tbl)) =>
             /\ conv'[3] = ProtectedError
             /\ tbl'.metatable = tbl.metatable]_vars
    /\ []((conv[1] = "getmetatable" /\ Protected(tbl)) =>
             conv[3] = Returned(<<Protection(tbl)>>))

\* C18 amended: while the table's current metatable has a non-nil
\* __metatable field, every setmetatable call on the table fails and leaves
\* the metatable unchanged, with 'cannot change a protected metatable' when
\* the new metatable given is nil or a table and with the argument error
\* when it is any other value; getmetatable returns the value of the
\* __metatable field.
C18_ProtectedWellTyped ==
    /\ [][(conv'[1] = "setmetatable" /\ Protected(tbl)) =>
             /\ conv'[3].kind = "raise"
             /\ conv'[3].class = "LuaRuntimeError"
             /\ (conv'[2] = Nil \/ conv'[2][1] = "table") =>
                   conv'[3] = ProtectedError
             /\ tbl'.metatable = tbl.metatable]_vars
    /\ []((conv[1] = "getmetatable" /\ Protected(tbl)) =>
             conv[3] = Returned(<<Protection(tbl)>>))

\* a table was refused as the new metatable of the protected table
C18_Witness ==
    /\ conv[1] = "setmetatable"
    /\ conv[2] # Nil
    /\ conv[2][1] = "table"
    /\ Protected(tbl)
    /\ conv[3] = ProtectedError

(***************************************************************************)
(* table.pack and table.unpack (SpecPack)                                  *)
(***************************************************************************)
\* C19: for all argument values a, b, c, table.unpack(table.pack(a, b, c))
\* returns exactly the three values a, b, c in order, and
\* table.pack(a, b, c).n is 3.
C19_PackUnpack ==
    Len(largs) = 3 =>
        /\ lpc = "unpacked" => lres = Returned(largs)
        /\ conv[1] = "n" => conv[2] = IntV(3)

(***************************************************************************)
(* Lexing and parsing (SpecLexer)                                          *)
(***************************************************************************)
\* C20: for every source string, Parser(s).parse() either returns a Block
\* or raises LuaSyntaxError; no other exception class escapes, malformed
\* escape sequences (\x, \u{...}, decimal) and unterminated strings
\* included.
C20_BlockOrSyntaxError ==
    lpc = "done" =>
        \/ lres = Returned(<<<<"Block">>>>)
        \/ lres.kind = "raise" /\ lres.class = "LuaSyntaxError"

IsPresent(t, k) == LuaKey(k) \in PresentKeys(t)

\* the assignment stored v under k in the table and ran no metamethod
StoredIn(before, after, k, v, calls) ==
    /\ rawget(after, k) = v
    /\ calls = <<>>

\* the rule of assignment applied to the table (known as self) with no
\* __newindex table behind it
AssignedDirect(before, after, self, k, v, calls) ==
    LET mm == NewindexOf(before) IN
    IF IsPresent(before, k) \/ mm = Nil
    THEN StoredIn(before, after, k, v, calls)
    ELSE mm[1] = "fn" =>
            /\ calls = <<[fn |-> mm, args |-> <<self, k, v>>]>>
            /\ after.data = before.data

\* C22: for an assignment t[k] = v: if k is present in t the value is
\* stored in t and no metamethod runs; if k is absent and the metatable of
\* t has a __newindex function, that function is called once with
\* (t, k, v) and t's entries are left unchanged; if __newindex is a table
\* the write is applied to that table by the same rule; with no __newindex
\* the value is stored in t.
C22_Newindex ==
    [][conv'[1] = "assign" =>
          LET k == conv'[2]
              v == conv'[3]
              mm == NewindexOf(tbl)
          IN IF ~IsPresent(tbl, k) /\ mm # Nil /\ mm[1] = "table"
             THEN /\ tbl'.data = tbl.data
                  /\ AssignedDirect(mm[2], NewindexOf(tbl')[2], OtherTable,
                                    k, v, lcallee')
             ELSE AssignedDirect(tbl, tbl', TheTable, k, v, lcallee')]_vars

(***************************************************************************)
(* Equality (SpecEquality)                                                 *)
(***************************************************************************)
\* C23: a == b is false whenever a and b are of different types among nil,
\* boolean, number, string, table and function; integers and floats
\* compare by numeric value; and a ~= b is the negation of a == b.
C23_Equality ==
    conv[1] \in {"==", "~="} =>
        LET a == largs[1]
            b == largs[2]
            eq == IF conv[1] = "==" THEN conv[2] ELSE ~conv[2]
        IN /\ lua_type(a) # lua_type(b) => ~eq
           /\ (lua_type(a) = "number" /\ lua_type(b) = "number") =>
                 (eq <=> FloatOf(a) = FloatOf(b))
           /\ eval_equality("~=", a, b) = ~eval_equality("==", a, b)

(***************************************************************************)
(* Bitwise operators (SpecBitwise)                                         *)
(***************************************************************************)
\* n reduced modulo 2^WordBits into the signed range
Wrap(n) ==
    LET m == n % Pow2(WordBits) IN
    IF m > MaxInteger THEN m - Pow2(WordBits) ELSE m

\* the mathematical result of a op b, for the operators that have one
\* whatever the sign of the operands
Mathematical(op, a, b) ==
    CASE op \in {"&", "|", "~"} -> PyBits(op, a, b)
      [] op = "<<" -> a * Pow2(b)

\* C24: every result of &, |, binary ~, <<, >> and unary ~ on integer
\* operands lies in the signed range of the integers and equals the
\* mathematical result reduced modulo 2^width; 1 << width is 0 and
\* 1 << (width - 1) is the minimum integer.
C24_BitwiseWraps ==
    lpc = "done" =>
        /\ lres.kind = "return"
        /\ lres.vals[1][2] \in Integers64
        /\ (conv[1] = "binary" /\ conv[2] # ">>" /\ largs[2][2] >= 0) =>
              lres.vals[1][2] = Wrap(Mathematical(conv[2], largs[1][2],
                                                  largs[2][2]))
        /\ conv[1] = "unary" => lres.vals[1][2] = Wrap(0 - largs[1][2] - 1)


(***************************************************************************)
(* C25: a break ends only the innermost loop around it in the same         *)
(* function body.  The break signal never leaves the frame of a user       *)
(* function, a pcall or a metamethod link still propagating, and a loop    *)
(* that a break ends was executing the break as a statement of its own     *)
(* block, not a call made from its body.                                   *)
(***************************************************************************)
C25_BreakStaysInFunction ==
    [][(phase = "running" /\ stack # <<>> /\ exc = "BreakSignal") =>
          /\ Top.k \in {"fn", "pcall", "mm"} => exc' # "BreakSignal"
          /\ (Top.k \in LoopKinds /\ exc' = "none") => Top.s = "blk"]_vars


(***************************************************************************)
(* C26: locals are lexically scoped.  No statement of SpecScope assigns    *)
(* to a variable, so whatever declarations follow the creation of the      *)
(* closure, in the same block, in other blocks or at the top of a later    *)
(* chunk, a call of the closure reads the value its variable had when the  *)
(* closure was created.                                                    *)
(***************************************************************************)
C26_ClosureKeepsVariable ==
    lpc = "called" => lres = Returned(<<largs.saw>>)


(***************************************************************************)
(* C27: within one execute or eval the instruction counter never goes      *)
(* down, also across a pcall or an xpcall that catches the quota error;    *)
(* once the counter is past max_instructions every later statement or      *)
(* loop iteration fails with the quota error and does not begin; so no     *)
(* more than max_instructions statements and iterations begin in the call. *)
(***************************************************************************)
C27_QuotaSticks ==
    /\ [](call \in ChunkKinds => begun <= max_instructions)
    /\ [][(call \in ChunkKinds /\ phase \in {"parsing", "running"}) =>
            instructions' >= instructions]_vars
    /\ [][(call \in ChunkKinds /\ (ExecStmt \/ LoopTick)
             /\ instructions > max_instructions) =>
            /\ exc' = "quota"
            /\ Message(exc') = "execution quota exceeded"
            /\ begun' = begun]_vars

\* C27 witness: xpcall caught the quota error of its call, and the first
\* statement of its handler has failed with the quota error again.
C27_Witness ==
    /\ call \in ChunkKinds
    /\ exc = "quota"
    /\ instructions = max_instructions + 2
    /\ begun = max_instructions
    /\ Len(stack) = 3
    /\ stack[2] = Frame("xpcall", "handler")
    /\ stack[3] = Frame("fn", "blk")


(***************************************************************************)
(* C28: call_depth always equals the number of user-function calls in      *)
(* progress, whichever way the calls before ended; it is 0 whenever no     *)
(* call is running; and a call made with fewer than max_call_depth user    *)
(* calls in progress is never rejected by the depth check, whatever        *)
(* overflowed earlier.                                                     *)
(***************************************************************************)
C28_DepthBalanced ==
    /\ [](call_depth = ActiveCalls(stack))
    /\ [](phase # "running" => call_depth = 0)
    /\ [][(CallLuaFunction /\ ActiveCalls(stack) < max_call_depth) =>
            exc' # "overflow"]_vars
    /\ [][HostCall => (phase' = "running" /\ call_depth' = 1)]_vars

\* C28 witness: a top-level call has ended with the 'stack overflow' of a
\* rejected call, which left max_call_depth calls by the error, and the
\* counter is back at 0.
C28_Witness ==
    /\ phase = "idle"
    /\ call \in ChunkKinds
    /\ outcome = "overflow"
    /\ call_depth = 0
    /\ max_call_depth >= 2


(***************************************************************************)
(* C29: a call by the host of a script function does not reset the         *)
(* instruction counter; its ticks add to the count the last execute or     *)
(* eval left; so while the counter is past max_instructions, as after a    *)
(* call that ended with the quota error, no statement or iteration of a    *)
(* host-called function begins: the first one fails with 'execution quota  *)
(* exceeded'.                                                              *)
(***************************************************************************)
C29_HostCallKeepsCount ==
    /\ [][HostCall => instructions' = instructions]_vars
    /\ [][(call = "host" /\ (ExecStmt \/ LoopTick)) =>
            /\ instructions' = instructions + 1
            /\ (instructions' > max_instructions) <=> (exc' = "quota")]_vars
    /\ [][(call = "host" /\ phase = "running"
             /\ instructions > max_instructions) =>
            /\ begun' = begun
            /\ (ExecStmt \/ LoopTick) =>
                 (exc' = "quota"
                    /\ Message(exc') = "execution quota exceeded")]_vars
    /\ [](call = "host" /\ begun > 0 => begun <= max_instructions)

\* C29 witness: after the counter passed max_instructions, the host called
\* a script function, and the call failed with the quota error before its
\* first statement began.
C29_Witness ==
    /\ call = "host"
    /\ phase = "idle"
    /\ outcome = "quota"
    /\ begun = 0
    /\ instructions = max_instructions + 2


(***************************************************************************)
(* C30: a source with a syntax error executes nothing.  From the start of  *)
(* the call to its end the globals table and the session environment,      *)
(* with the tables they hold, stay as they were, and the call raises       *)
(* LuaSyntaxError.                                                         *)
(***************************************************************************)
C30_SyntaxErrorRunsNothing ==
    /\ [][((phase = "parsing" \/ phase' = "parsing")
             /\ ~(phase' = "idle" /\ lres.kind = "return")) =>
            UNCHANGED <<globals, senv, tbl>>]_vars
    /\ [][(phase = "parsing" /\ phase' = "idle" /\ lres.kind = "raise") =>
            outcome' = "LuaSyntaxError"]_vars

====
